---- MODULE Spec2Model ----
\* Verification model of the fueli_petrol ingestion and normalisation pipeline
\* (migrate_posta_data.py, consolidate_data.py, migrate_petrol_data.py,
\* process_xml.py, database.py).
\*
\* Text is modelled as a sequence of one-character strings, a floating value as
\* an exact fraction n/d in lowest terms (or NaN, +inf, -inf), and a pandas cell
\* as a record that is either missing (NaN) or holds text.
EXTENDS Integers, Sequences, FiniteSets, TLC

VARIABLES
    num,      \* numeric cleaning: the cell under conversion and its result
    pico,     \* pump/nozzle parsing: the token and the parsed pair
    asm,      \* record assembly: the source file and the records emitted
    hdr,      \* header location: the grid and the row index chosen
    files,    \* run level: the files of the data folders
    csv,      \* run level: rows of data/consolidated_data.csv
    table,    \* run level: the despachos table of data/fueli.db
    run,      \* run level: the run in progress (migrate_posta_data.main)
    xml,      \* run level: process_xml.process_xml_file in progress
    hist,     \* run level: the completed runs, oldest first
    qry,      \* query interface: the stored rows, the filters and the result
    xrow,     \* XML row extraction: the cells of a row and the fields read
    cls,      \* column classification: the columns of a sheet and the choice
    dat,      \* date parsing: the cell given to clean_date and its result
    foot,     \* footer stripping: the rows read and the rows left
    pag       \* dashboard table: the page state of a session

vars ==
    <<num, pico, asm, hdr, files, csv, table, run, xml, hist, qry, xrow, cls, dat, foot, pag>>

\* ------------------------------------------------------------------ bounds
MaxNumLen == 4
MaxTokLen == 4
MaxRows == 1
MaxGridRows == 3
NFiles == 2
MaxRuns == 2
MaxStored == 2
MaxCols == 8

\* ------------------------------------------------------------- text helpers
Digits == {"0", "1", "2", "3", "4", "5", "6", "7", "8", "9"}
Letters ==
    {"a", "b", "c", "d", "e", "f", "g", "h", "i", "j", "k", "l", "m",
     "n", "o", "p", "q", "r", "s", "t", "u", "v", "w", "x", "y", "z",
     "A", "B", "C", "D", "E", "F", "G", "H", "I", "J", "K", "L", "M",
     "N", "O", "P", "Q", "R", "S", "T", "U", "V", "W", "X", "Y", "Z"}
Space == " "

DigitVal(c) ==
    CASE c = "0" -> 0 [] c = "1" -> 1 [] c = "2" -> 2 [] c = "3" -> 3
      [] c = "4" -> 4 [] c = "5" -> 5 [] c = "6" -> 6 [] c = "7" -> 7
      [] c = "8" -> 8 [] c = "9" -> 9

StringsUpTo(A, n) == UNION {[1..m -> A] : m \in 0..n}

Count(s, c) == Cardinality({i \in 1..Len(s) : s[i] = c})

StartsWith(s, p) == Len(s) >= Len(p) /\ SubSeq(s, 1, Len(p)) = p

\* str.replace(old, new): leftmost, non-overlapping occurrences of a non-empty old
RECURSIVE ReplaceAll(_, _, _)
ReplaceAll(s, old, new) ==
    IF s = <<>> THEN <<>>
    ELSE IF StartsWith(s, old)
         THEN new \o ReplaceAll(SubSeq(s, Len(old) + 1, Len(s)), old, new)
         ELSE <<Head(s)>> \o ReplaceAll(Tail(s), old, new)

\* str.strip(): whitespace removed at both ends
RECURSIVE LStrip(_)
LStrip(s) == IF s # <<>> /\ Head(s) = Space THEN LStrip(Tail(s)) ELSE s

RECURSIVE RStrip(_)
RStrip(s) ==
    IF s # <<>> /\ s[Len(s)] = Space THEN RStrip(SubSeq(s, 1, Len(s) - 1)) ELSE s

Strip(s) == LStrip(RStrip(s))

\* ------------------------------------------------------------ float helpers
RECURSIVE Gcd(_, _)
Gcd(a, b) == IF b = 0 THEN a ELSE Gcd(b, a % b)

Abs(x) == IF x < 0 THEN -x ELSE x

RECURSIVE Pow10(_)
Pow10(k) == IF k = 0 THEN 1 ELSE 10 * Pow10(k - 1)

NaN == [k |-> "nan", n |-> 0, d |-> 1]
PosInf == [k |-> "inf", n |-> 1, d |-> 1]
NegInf == [k |-> "inf", n |-> -1, d |-> 1]
NoneVal == [k |-> "none", n |-> 0, d |-> 1]
ParseError == [k |-> "err", n |-> 0, d |-> 1]

\* the float n/d, d > 0, in lowest terms
Frac(n, d) ==
    LET g == Gcd(Abs(n), d)
    IN [k |-> "num", n |-> n \div g, d |-> d \div g]

Num(i) == Frac(i, 1)

IsNum(x) == x.k = "num"
IsMissing(x) == x.k \in {"nan", "none"}

\* pandas / numpy float division a / b
FDiv(a, b) ==
    IF ~IsNum(a) \/ ~IsNum(b) THEN NaN
    ELSE IF b.n = 0
         THEN IF a.n = 0 THEN NaN ELSE IF a.n > 0 THEN PosInf ELSE NegInf
         ELSE IF b.n > 0 THEN Frac(a.n * b.d, a.d * b.n)
              ELSE Frac(-(a.n * b.d), a.d * (-b.n))

RECURSIVE DigitsValue(_)
DigitsValue(s) ==
    IF s = <<>> THEN 0 ELSE 10 * DigitsValue(SubSeq(s, 1, Len(s) - 1)) + DigitVal(s[Len(s)])

\* float(text): optional surrounding blanks, optional sign, decimal digits with
\* at most one point and at least one digit. Exponents, underscores and the
\* words inf/nan cannot be spelled with the characters of the inputs used here.
ParseFloat(s) ==
    LET t == Strip(s)
        signed == t # <<>> /\ Head(t) \in {"+", "-"}
        u == IF signed THEN Tail(t) ELSE t
        sgn == IF signed /\ Head(t) = "-" THEN -1 ELSE 1
        ds == SelectSeq(u, LAMBDA c : c \in Digits)
        ok == /\ \A i \in 1..Len(u) : u[i] \in Digits \cup {"."}
              /\ Count(u, ".") <= 1
              /\ Len(ds) >= 1
        fracLen == IF Count(u, ".") = 1
                   THEN Len(u) - (CHOOSE i \in 1..Len(u) : u[i] = ".")
                   ELSE 0
    IN IF ok THEN Frac(sgn * DigitsValue(ds), Pow10(fracLen)) ELSE ParseError

\* a pandas cell: missing, or text
NaCell == [na |-> TRUE, s |-> <<>>]
Text(s) == [na |-> FALSE, s |-> s]

\* ------------------------------------------------- numeric cleaning (4.4)
\* the chain of str.replace calls of clean_numeric_string
StripUnits(s) ==
    LET s1 == ReplaceAll(s, <<"$">>, <<>>)
        s2 == ReplaceAll(s1, <<"L", "t", "r">>, <<>>)
        s3 == ReplaceAll(s2, <<"M", "3">>, <<>>)
        s4 == ReplaceAll(s3, <<"$", "/", "L", "t", "r">>, <<>>)
        s5 == ReplaceAll(s4, <<"/">>, <<>>)
        s6 == ReplaceAll(s5, <<Space>>, <<>>)
    IN s6

\* the separator rules of clean_numeric_string
FixSeparators(v) ==
    IF Count(v, ".") > 0 /\ Count(v, ",") > 0
    THEN ReplaceAll(ReplaceAll(v, <<".">>, <<>>), <<",">>, <<".">>)
    ELSE IF Count(v, ".") > 0
         THEN IF Count(v, ".") > 1 THEN ReplaceAll(v, <<".">>, <<>>) ELSE v
         ELSE IF Count(v, ",") > 0 THEN ReplaceAll(v, <<",">>, <<".">>) ELSE v

clean_numeric_string(value) ==
    IF value.na THEN NoneVal
    ELSE LET r == ParseFloat(FixSeparators(StripUnits(value.s)))
         IN IF r = ParseError THEN NoneVal ELSE r

\* pd.to_numeric(text, errors='coerce')
ToNumeric(s) ==
    LET r == ParseFloat(s) IN IF r = ParseError THEN NaN ELSE r

\* df[col].astype(str): a missing cell becomes the text "nan"
AsTypeStr(cell) == IF cell.na THEN <<"n", "a", "n">> ELSE cell.s

\* process_excel_file, Hersu branch: result['volumen']
HersuVolumen(cell) ==
    IF cell.na THEN NaN
    ELSE ToNumeric(ReplaceAll(AsTypeStr(cell), <<",">>, <<".">>))

\* process_excel_file, Hersu branch: result['importe'] and result['ppu']
HersuImporte(cell) ==
    IF cell.na THEN NaN
    ELSE ToNumeric(ReplaceAll(ReplaceAll(AsTypeStr(cell), <<"$">>, <<>>), <<",">>, <<".">>))

\* consolidate_data.process_excel_file: result['Importe'], with [$,] removed
PetrolImporte(cell) ==
    IF cell.na THEN NaN
    ELSE ToNumeric(SelectSeq(AsTypeStr(cell), LAMBDA c : c \notin {"$", ","}))

\* the texts the numeric cells are drawn from
NumExamples ==
    { <<"$", "1", ".", "2", "3", "4", ",", "5", "6">>,
      <<"1", ",", "5">>,
      <<"1", "2", ".", "3", "4", "5", ".", "6", "7", "8">>,
      <<"1", "0", " ", "L", "t", "r">>,
      <<"5", ",", "5", " ", "M", "3">>,
      <<"$", " ", "2", "5", "/", "L", "t", "r">>,
      <<"-", "3", ",", "5">>,
      <<"a", "b", "c">> }

NumInputs ==
    {NaCell} \cup {Text(s) : s \in StringsUpTo({"1", "5", ".", ",", "$"}, MaxNumLen) \cup NumExamples}

\* the parts of the pipeline are checked one at a time: the variables of the
\* parts not in own are left empty, and stay so
Idle(own) ==
    /\ IF "num" \in own THEN TRUE ELSE num = <<>>
    /\ IF "pico" \in own THEN TRUE ELSE pico = <<>>
    /\ IF "asm" \in own THEN TRUE ELSE asm = <<>>
    /\ IF "hdr" \in own THEN TRUE ELSE hdr = <<>>
    /\ IF "run" \in own THEN TRUE
       ELSE files = <<>> /\ csv = <<>> /\ table = <<>> /\ run = <<>> /\ xml = <<>> /\ hist = <<>>
    /\ IF "qry" \in own THEN TRUE ELSE qry = <<>>
    /\ IF "xrow" \in own THEN TRUE ELSE xrow = <<>>
    /\ IF "cls" \in own THEN TRUE ELSE cls = <<>>
    /\ IF "dat" \in own THEN TRUE ELSE dat = <<>>
    /\ IF "foot" \in own THEN TRUE ELSE foot = <<>>
    /\ IF "pag" \in own THEN TRUE ELSE pag = <<>>

Rest(own) ==
    /\ IF "num" \in own THEN TRUE ELSE UNCHANGED num
    /\ IF "pico" \in own THEN TRUE ELSE UNCHANGED pico
    /\ IF "asm" \in own THEN TRUE ELSE UNCHANGED asm
    /\ IF "hdr" \in own THEN TRUE ELSE UNCHANGED hdr
    /\ IF "run" \in own THEN TRUE ELSE UNCHANGED <<files, csv, table, run, xml, hist>>
    /\ IF "qry" \in own THEN TRUE ELSE UNCHANGED qry
    /\ IF "xrow" \in own THEN TRUE ELSE UNCHANGED xrow
    /\ IF "cls" \in own THEN TRUE ELSE UNCHANGED cls
    /\ IF "dat" \in own THEN TRUE ELSE UNCHANGED dat
    /\ IF "foot" \in own THEN TRUE ELSE UNCHANGED foot
    /\ IF "pag" \in own THEN TRUE ELSE UNCHANGED pag

\* process_csv_file: df['Monto'|'Precio'|'Volumen'].apply(clean_numeric_string)
CleanCsv ==
    /\ num.path = "raw"
    /\ num' = [num EXCEPT !.path = "csv", !.out = clean_numeric_string(num.in)]
    /\ Rest({"num"})

\* process_excel_file (Hersu): importe and ppu columns
CleanHersuImporte ==
    /\ num.path = "raw"
    /\ num' = [num EXCEPT !.path = "hersu_importe", !.out = HersuImporte(num.in)]
    /\ Rest({"num"})

\* process_excel_file (Hersu): volumen column
CleanHersuVolumen ==
    /\ num.path = "raw"
    /\ num' = [num EXCEPT !.path = "hersu_volumen", !.out = HersuVolumen(num.in)]
    /\ Rest({"num"})

\* consolidate_data.process_excel_file: Importe column
CleanPetrolImporte ==
    /\ num.path = "raw"
    /\ num' = [num EXCEPT !.path = "petrol_importe", !.out = PetrolImporte(num.in)]
    /\ Rest({"num"})

SpecNum ==
    /\ num \in {[path |-> "raw", in |-> c, out |-> NoneVal] : c \in NumInputs}
    /\ Idle({"num"})
    /\ [][CleanCsv \/ CleanHersuImporte \/ CleanHersuVolumen \/ CleanPetrolImporte]_vars

\* ------------------------------------------------ pump/nozzle parsing (4.4)
\* str.split('/')
RECURSIVE SplitSlash(_)
SplitSlash(s) ==
    IF Count(s, "/") = 0 THEN <<s>>
    ELSE LET i == CHOOSE j \in 1..Len(s) : s[j] = "/" /\ \A m \in 1..(j - 1) : s[m] # "/"
         IN <<SubSeq(s, 1, i - 1)>> \o SplitSlash(SubSeq(s, i + 1, Len(s)))

\* length of the longest run of characters of set A starting at position i of s
RECURSIVE RunLen(_, _, _)
RunLen(s, i, A) ==
    IF i <= Len(s) /\ s[i] \in A THEN 1 + RunLen(s, i + 1, A) ELSE 0

\* the nozzle used when no letter follows the pump number
DefaultManguera_Digit == <<"1">>

DefaultManguera == <<"a">>

\* re.search(r'(\d+)\s*([a-zA-Z])?', s): groups 1 and 2 of the first match,
\* group 2 missing when no letter follows; no match when s holds no digit
RegexSurtidorManguera(s) ==
    IF \A i \in 1..Len(s) : s[i] \notin Digits THEN [matched |-> FALSE, g1 |-> <<>>, g2 |-> NaCell]
    ELSE LET b == CHOOSE j \in 1..Len(s) : s[j] \in Digits /\ \A m \in 1..(j - 1) : s[m] \notin Digits
             n == RunLen(s, b, Digits)
             w == RunLen(s, b + n, {Space})
             p == b + n + w
         IN [matched |-> TRUE,
             g1 |-> SubSeq(s, b, b + n - 1),
             g2 |-> IF p <= Len(s) /\ s[p] \in Letters THEN Text(<<s[p]>>) ELSE NaCell]

\* extract_surtidor_manguera(value): the pair (surtidor, manguera)
extract_surtidor_manguera(value) ==
    IF value.na THEN <<NaCell, NaCell>>
    ELSE LET parts == SplitSlash(value.s)
             m == RegexSurtidorManguera(value.s)
         IN IF Len(parts) = 2 THEN <<Text(Strip(parts[1])), Text(Strip(parts[2]))>>
            ELSE IF m.matched
                 THEN <<Text(m.g1), IF m.g2.na THEN Text(DefaultManguera) ELSE m.g2>>
                 ELSE <<NaCell, NaCell>>

TokExamples ==
    { <<"1", "2", "/", "a">>, <<"1", "2">>, <<"3", "b">>, <<"1", "2", "/", "1">>,
      <<"x", "1", "2", "b">>, <<"1", "/", "2", "/", "b">>, <<"0", "7", " ", " ", "C", "d">> }

TokInputs ==
    {NaCell} \cup
        {Text(s) : s \in StringsUpTo({"1", "2", "/", "a", "b", Space}, MaxTokLen) \cup TokExamples}

\* consolidate_data.process_excel_file: df['Surtidor/Manguera'].apply(extract_surtidor_manguera)
ParsePico ==
    /\ ~pico.done
    /\ pico' = [pico EXCEPT !.done = TRUE, !.out = extract_surtidor_manguera(pico.in)]
    /\ Rest({"pico"})

SpecPico ==
    /\ pico \in {[done |-> FALSE, in |-> c, out |-> <<NaCell, NaCell>>] : c \in TokInputs}
    /\ Idle({"pico"})
    /\ [][ParsePico]_vars

\* ---- C5 ----------------------------------------------------------------
\* the digits a token begins with
RECURSIVE C5_LeadingDigits(_)
C5_LeadingDigits(t) ==
    IF t # <<>> /\ Head(t) \in Digits THEN <<Head(t)>> \o C5_LeadingDigits(Tail(t)) ELSE <<>>

RECURSIVE C5_DropBlanks(_)
C5_DropBlanks(t) == IF t # <<>> /\ Head(t) = Space THEN C5_DropBlanks(Tail(t)) ELSE t

\* the letter that follows the leading digits (blanks between them allowed), or 'a'
C5_Nozzle(t) ==
    LET rest == C5_DropBlanks(SubSeq(t, Len(C5_LeadingDigits(t)) + 1, Len(t)))
    IN IF rest # <<>> /\ Head(rest) \in Letters THEN <<Head(rest)>> ELSE <<"a">>

C5_Trim(t) == SelectSeq(t, LAMBDA c : c # Space)

\* C5: a token with one '/' separator splits at the separator into (pump,
\* nozzle), each trimmed; any other token that begins with digits gives those
\* digits as pump and the letter that follows as nozzle, 'a' when none follows.
\* "12/a" gives ("12","a"), "12" gives ("12","a"), "3b" gives ("3","b").
C5_PumpNozzleParsing ==
    (pico.done /\ ~pico.in.na) =>
        LET t == pico.in.s
            slashes == {i \in 1..Len(t) : t[i] = "/"}
            cut == CHOOSE i \in slashes : TRUE
        IN /\ (Cardinality(slashes) = 1 /\ Count(t, Space) = 0) =>
                pico.out = <<Text(SubSeq(t, 1, cut - 1)), Text(SubSeq(t, cut + 1, Len(t)))>>
           /\ Cardinality(slashes) = 1 =>
                /\ C5_Trim(pico.out[1].s) = C5_Trim(SubSeq(t, 1, cut - 1))
                /\ C5_Trim(pico.out[2].s) = C5_Trim(SubSeq(t, cut + 1, Len(t)))
           /\ (Cardinality(slashes) # 1 /\ C5_LeadingDigits(t) # <<>>) =>
                pico.out = <<Text(C5_LeadingDigits(t)), Text(C5_Nozzle(t))>>
           /\ t = <<"1", "2", "/", "a">> => pico.out = <<Text(<<"1", "2">>), Text(<<"a">>)>>
           /\ t = <<"1", "2">> => pico.out = <<Text(<<"1", "2">>), Text(<<"a">>)>>
           /\ t = <<"3", "b">> => pico.out = <<Text(<<"3">>), Text(<<"b">>)>>

\* "3b" has been parsed to ("3","b") and carries no separator
C5_Witness ==
    /\ pico.done
    /\ pico.in = Text(<<"3", "b">>)
    /\ pico.out = <<Text(<<"3">>), Text(<<"b">>)>>

\* --------------------------------------------------- product mapping (4.5)
\* the product labels of the mapping tables, and two labels that are no key
Label ==
    [NSXXI |-> <<"N", "S", " ", "X", "X", "I">>,
     GNC |-> <<"G", "N", "C">>,
     INFINIA |-> <<"I", "N", "F", "I", "N", "I", "A">>,
     DDIESEL500 |-> <<"D", ".", "D", "I", "E", "S", "E", "L", "5", "0", "0">>,
     DIESEL500 |-> <<"D", "I", "E", "S", "E", "L", " ", "5", "0", "0">>,
     GOINFINIA |-> <<"G", "O", "-", "I", "N", "F", "I", "N", "I", "A", " ",
                     "D", "I", "E", "S", "E", "L">>,
     INFINIADIESEL |-> <<"I", "N", "F", "I", "N", "I", "A", " ", "D", "I", "E", "S", "E", "L">>,
     SUPER |-> <<"S", "U", "P", "E", "R">>,
     DIESEL |-> <<"D", "I", "E", "S", "E", "L">>,
     LIQUIDO |-> <<"L", "I", "Q", "U", "I", "D", "O">>,
     XYZ123 |-> <<"X", "Y", "Z", "1", "2", "3">>,
     NSXXI_Padded |-> <<" ", "N", "S", " ", "X", "X", "I", " ">>]

\* migrate_posta_data.process_excel_file: product_mapping
ExcelProductTable ==
    { <<Label.NSXXI, Label.GNC>>, <<Label.INFINIA, Label.INFINIA>>, <<Label.DDIESEL500, Label.DIESEL500>>,
      <<Label.GOINFINIA, Label.INFINIADIESEL>>, <<Label.SUPER, Label.SUPER>>, <<Label.DIESEL, Label.DIESEL>> }

\* migrate_posta_data.process_excel_xml_file: the if/elif on producto
XmlProductTable == { <<Label.NSXXI, Label.GNC>>, <<Label.GOINFINIA, Label.INFINIADIESEL>> }

\* migrate_petrol_data.standardize_petrol_dataframe: product_mapping
PetrolProductTable ==
    { <<Label.NSXXI, Label.GNC>>, <<Label.INFINIA, Label.INFINIA>>, <<Label.DDIESEL500, Label.DIESEL500>>,
      <<Label.GOINFINIA, Label.INFINIADIESEL>> }

InTable(tbl, label) == \E e \in tbl : e[1] = label
Lookup(tbl, label) == (CHOOSE e \in tbl : e[1] = label)[2]

\* result['producto'].map(lambda x: product_mapping.get(str(x).strip(), x))
MapProductExcel(cell) ==
    IF ~cell.na /\ InTable(ExcelProductTable, Strip(cell.s))
    THEN Text(Lookup(ExcelProductTable, Strip(cell.s)))
    ELSE cell

\* producto = producto.strip(), then the if/elif
MapProductXml(cell) ==
    IF InTable(XmlProductTable, Strip(cell.s))
    THEN Text(Lookup(XmlProductTable, Strip(cell.s)))
    ELSE Text(Strip(cell.s))

\* df['producto'].map(product_mapping): Series.map with a dict gives NaN for
\* every label that is no key of the dict
MapProductPetrol(cell) ==
    IF ~cell.na /\ InTable(PetrolProductTable, cell.s)
    THEN Text(Lookup(PetrolProductTable, cell.s))
    ELSE NaCell

\* ----------------------------------------------------- record assembly (4.6)
\* A source row: fecha is "ok" (a parseable date) or "na" (an empty cell); prod
\* is a text cell; vol, imp and ppu are the numbers read from the row's cells,
\* NaN for an empty or unparseable cell. cols says which of the optional
\* columns the file has.
\*
\* a row: its date cell is a date ("ok"), empty ("na") or a text that is no
\* date ("bad"); its pump cell is a text
RowVals ==
    [fecha : {"ok", "na", "bad"},
     pico : {Text(<<"3">>)},
     prod : {Text(Label.NSXXI), Text(Label.XYZ123), Text(Label.NSXXI_Padded)},
     vol : {NaN, Num(0), Num(2)},
     imp : {NaN, Num(0), Num(50)},
     ppu : {NaN, Num(7)}]

\* a row every path keeps
GoodRow ==
    [fecha |-> "ok", pico |-> Text(<<"3">>), prod |-> Text(Label.NSXXI), vol |-> Num(2),
     imp |-> Num(50), ppu |-> Num(7)]

\* the same row with an empty pump cell
NoPumpRow == [GoodRow EXCEPT !.pico = NaCell]

\* pd.to_datetime(df[col], format='mixed'), and pd.to_datetime of year, month
\* and day columns: a value that is no date raises
DateRaises(rs) == \E i \in 1..Len(rs) : rs[i].fecha = "bad"

\* consolidate_data.process_excel_file: dates = df['Fecha'].apply(clean_date)
\* holds None for every row that is no date; dates.dt.day raises when no row
\* of the file is a date
NoDateParsed(rs) == \A i \in 1..Len(rs) : rs[i].fecha # "ok"

AllCols == [ppu |-> TRUE, vol |-> TRUE, imp |-> TRUE, prod |-> TRUE, pico |-> TRUE]
\* the columns a file has: all of them, or all but one
ColSets ==
    {c \in [ppu : BOOLEAN, vol : BOOLEAN, imp : BOOLEAN, prod : BOOLEAN, pico : BOOLEAN] :
        Cardinality({k \in {"ppu", "vol", "imp", "prod", "pico"} : ~c[k]}) <= 1}

FixedLayoutPaths == {"posta_xml", "posta_hersu", "petrol_migrate", "csv_migrate"}
InferredLayoutPaths == {"posta_generic", "petrol_consolidate"}

Rec(i, pump, prod, vol, imp, ppu) ==
    [src |-> i, pico |-> pump, prod |-> prod, vol |-> vol, imp |-> imp, ppu |-> ppu]

\* the pump of a record read from a sheet: result['pico'] = df[col].astype(str)
\* when a pump column was found, else the constant '1'
SheetPico(r, cols) == IF cols.pico THEN Text(AsTypeStr(r.pico)) ELSE Text(<<"1">>)

\* the records recs[i] of the rows i that keep[i] holds for, in row order
Emit(keep, recs) ==
    LET idx == SelectSeq([i \in 1..Len(recs) |-> i], LAMBDA i : keep[i])
    IN [j \in 1..Len(idx) |-> recs[idx[j]]]

\* process_excel_xml_file: ppu = importe / volumen if volumen != 0 else 0
XmlPpu(r) == IF r.vol # Num(0) THEN FDiv(r.imp, r.vol) ELSE Num(0)

\* process_excel_xml_file: a row needs fecha, pico, producto, importe and volumen
XmlKeep(r) ==
    r.fecha = "ok" /\ r.pico.s # <<>> /\ r.prod.s # <<>> /\ IsNum(r.imp) /\ IsNum(r.vol)

AssembleXmlRows(rs) ==
    Emit([i \in 1..Len(rs) |-> XmlKeep(rs[i])],
         [i \in 1..Len(rs) |->
             Rec(i, rs[i].pico, MapProductXml(rs[i].prod), rs[i].vol, rs[i].imp, XmlPpu(rs[i]))])

\* a unit price recomputed from amount and volume whatever the file supplies
PostaPpu_Recompute(r, cols) == FDiv(r.imp, r.vol)

\* migrate_posta_data.process_excel_file: result['ppu'] is the PPU / PRECIO
\* column when the file has one, else result['importe'] / result['volumen']
PostaPpu(r, cols) == IF cols.ppu THEN r.ppu ELSE FDiv(r.imp, r.vol)

\* result.dropna(subset=['fecha', 'volumen', 'importe'])
PostaKeep(r) == r.fecha = "ok" /\ r.vol # NaN /\ r.imp # NaN

PostaProd(r, cols) == MapProductExcel(IF cols.prod THEN r.prod ELSE Text(Label.LIQUIDO))

\* process_excel_file (migrate_posta_data), rows to records; the dropna raises
\* KeyError when no volume or no amount column was classified
AssemblePostaRows(rs, cols) ==
    Emit([i \in 1..Len(rs) |-> PostaKeep(rs[i])],
         [i \in 1..Len(rs) |->
             Rec(i, SheetPico(rs[i], cols), PostaProd(rs[i], cols), rs[i].vol, rs[i].imp,
                 PostaPpu(rs[i], cols))])

\* a volume of 1 for the files that have no volume column
PetrolVol_One(r, cols) == IF cols.vol THEN r.vol ELSE Num(1)

\* consolidate_data.process_excel_file: Importe and Volumen default to 0 when
\* the file has no such column
PetrolImp(r, cols) == IF cols.imp THEN r.imp ELSE Num(0)
PetrolVol(r, cols) == IF cols.vol THEN r.vol ELSE Num(0)

\* PPU: the column when present; else 0.0, and Importe / Volumen where both
\* differ from 0 (NaN != 0 holds); NaN is then filled with 0
PetrolPpu(r, cols) ==
    LET imp == PetrolImp(r, cols)
        vol == PetrolVol(r, cols)
        raw == IF cols.ppu THEN r.ppu
               ELSE IF vol # Num(0) /\ imp # Num(0) THEN FDiv(imp, vol) ELSE Num(0)
    IN IF raw = NaN THEN Num(0) ELSE raw

\* result.dropna(subset=['Importe', 'Volumen'], how='all')
PetrolKeep(r, cols) == ~(PetrolImp(r, cols) = NaN /\ PetrolVol(r, cols) = NaN)

PetrolProd(r, cols) == IF cols.prod THEN r.prod ELSE Text(Label.LIQUIDO)

AssemblePetrolRows(rs, cols) ==
    Emit([i \in 1..Len(rs) |-> PetrolKeep(rs[i], cols)],
         [i \in 1..Len(rs) |->
             Rec(i, SheetPico(rs[i], cols), PetrolProd(rs[i], cols), PetrolVol(rs[i], cols),
                 PetrolImp(rs[i], cols), PetrolPpu(rs[i], cols))])

\* standardize_petrol_dataframe: dropna(subset=['fecha', 'pico', 'producto',
\* 'volumen', 'importe']) after the product map
MigratePetrolKeep(r) ==
    /\ r.fecha = "ok" /\ ~r.pico.na /\ ~MapProductPetrol(r.prod).na
    /\ r.vol # NaN /\ r.imp # NaN

MigratePetrolRows(rs) ==
    Emit([i \in 1..Len(rs) |-> MigratePetrolKeep(rs[i])],
         [i \in 1..Len(rs) |->
             Rec(i, rs[i].pico, MapProductPetrol(rs[i].prod), rs[i].vol, rs[i].imp,
                 rs[i].ppu)])

\* database.migrate_csv_to_db: every row of the CSV, columns renamed
MigrateCsvRows(rs) ==
    Emit([i \in 1..Len(rs) |-> TRUE],
         [i \in 1..Len(rs) |->
             Rec(i, rs[i].pico, rs[i].prod, rs[i].vol, rs[i].imp, rs[i].ppu)])

AsmFiles(p) ==
    { [path |-> p, cols |-> c, rows |-> rs, out |-> <<>>, status |-> "raw"] :
        c \in IF p \in FixedLayoutPaths THEN {AllCols} ELSE ColSets,
        rs \in UNION {[1..m -> RowVals] : m \in 1..MaxRows}
                \cup {<<r, GoodRow>> : r \in RowVals} \cup {<<GoodRow, r>> : r \in RowVals}
                \cup {<<NoPumpRow>>, <<NoPumpRow, GoodRow>>, <<GoodRow, NoPumpRow>>} }

\* migrate_posta_data.process_excel_xml_file
AssemblePostaXml ==
    /\ asm.status = "raw" /\ asm.path = "posta_xml"
    /\ asm' = [asm EXCEPT !.status = "done", !.out = AssembleXmlRows(asm.rows)]
    /\ Rest({"asm"})

\* migrate_posta_data.process_excel_file, Hersu branch and generic branch
AssemblePostaExcel ==
    /\ asm.status = "raw" /\ asm.path \in {"posta_hersu", "posta_generic"}
    /\ asm' = IF asm.cols.vol /\ asm.cols.imp /\ ~DateRaises(asm.rows)
              THEN [asm EXCEPT !.status = "done",
                               !.out = AssemblePostaRows(asm.rows, asm.cols)]
              ELSE [asm EXCEPT !.status = "failed"]
    /\ Rest({"asm"})

\* consolidate_data.process_excel_file
AssemblePetrol ==
    /\ asm.status = "raw" /\ asm.path = "petrol_consolidate"
    /\ asm' = IF NoDateParsed(asm.rows)
              THEN [asm EXCEPT !.status = "failed"]
              ELSE [asm EXCEPT !.status = "done",
                               !.out = AssemblePetrolRows(asm.rows, asm.cols)]
    /\ Rest({"asm"})

\* migrate_petrol_data.standardize_petrol_dataframe
MigratePetrol ==
    /\ asm.status = "raw" /\ asm.path = "petrol_migrate"
    /\ asm' = IF DateRaises(asm.rows)
              THEN [asm EXCEPT !.status = "failed"]
              ELSE [asm EXCEPT !.status = "done", !.out = MigratePetrolRows(asm.rows)]
    /\ Rest({"asm"})

\* database.migrate_csv_to_db
MigrateCsv ==
    /\ asm.status = "raw" /\ asm.path = "csv_migrate"
    /\ asm' = IF DateRaises(asm.rows)
              THEN [asm EXCEPT !.status = "failed"]
              ELSE [asm EXCEPT !.status = "done", !.out = MigrateCsvRows(asm.rows)]
    /\ Rest({"asm"})

SpecAsm ==
    /\ \E p \in FixedLayoutPaths \cup InferredLayoutPaths : asm \in AsmFiles(p)
    /\ Idle({"asm"})
    /\ [][AssemblePostaXml \/ AssemblePostaExcel \/ AssemblePetrol \/ MigratePetrol
          \/ MigrateCsv]_vars

\* ------------------------------------------------------ header location (4.2)
\* the header tokens of find_data_start, the keywords of the scored choice,
\* and cell texts that are neither
Word ==
    [Fecha |-> <<"F", "e", "c", "h", "a">>,
     Pico |-> <<"P", "i", "c", "o">>,
     Manguera |-> <<"M", "a", "n", "g", "u", "e", "r", "a">>,
     Volumen |-> <<"V", "o", "l", "u", "m", "e", "n">>,
     Importe |-> <<"I", "m", "p", "o", "r", "t", "e">>,
     Surt |-> <<"S", "u", "r", "t">>,
     Mang |-> <<"M", "a", "n", "g">>,
     FechaYHora |-> <<"F", "e", "c", "h", "a", " ", "y", " ", "H", "o", "r", "a">>,
     FECHA |-> <<"F", "E", "C", "H", "A">>,
     VOLUMEN |-> <<"V", "O", "L", "U", "M", "E", "N">>,
     LITROS |-> <<"L", "I", "T", "R", "O", "S">>,
     IMPORTE |-> <<"I", "M", "P", "O", "R", "T", "E">>,
     MONTO |-> <<"M", "O", "N", "T", "O">>,
     PRODUCTO |-> <<"P", "R", "O", "D", "U", "C", "T", "O">>,
     COMBUSTIBLE |-> <<"C", "O", "M", "B", "U", "S", "T", "I", "B", "L", "E">>,
     PICO |-> <<"P", "I", "C", "O">>,
     SURTIDOR |-> <<"S", "U", "R", "T", "I", "D", "O", "R">>,
     Reporte |-> <<"R", "e", "p", "o", "r", "t", "e">>,
     Date |-> <<"0", "1", "/", "0", "2", "/", "2", "0", "2", "4">>,
     Unnamed |-> <<"U", "n", "n", "a", "m", "e", "d">>,
     DATE |-> <<"D", "A", "T", "E">>,
     Surtidor |-> <<"S", "u", "r", "t", "i", "d", "o", "r">>,
     BOMBA |-> <<"B", "O", "M", "B", "A">>,
     TIPO |-> <<"T", "I", "P", "O">>,
     CANTIDAD |-> <<"C", "A", "N", "T", "I", "D", "A", "D">>,
     TOTAL |-> <<"T", "O", "T", "A", "L">>,
     VALOR |-> <<"V", "A", "L", "O", "R">>,
     PRECIO |-> <<"P", "R", "E", "C", "I", "O">>,
     PPU |-> <<"P", "P", "U">>,
     UNITARIO |-> <<"U", "N", "I", "T", "A", "R", "I", "O">>,
     FechaFinal |-> <<"F", "e", "c", "h", "a", " ", "f", "i", "n", "a", "l">>,
     HoraFinal |-> <<"H", "o", "r", "a", " ", "f", "i", "n", "a", "l">>,
     Combust |-> <<"C", "o", "m", "b", "u", "s", "t", ".">>,
     Monto |-> <<"M", "o", "n", "t", "o">>,
     Precio |-> <<"P", "r", "e", "c", "i", "o">>,
     fecha |-> <<"f", "e", "c", "h", "a">>,
     hora |-> <<"h", "o", "r", "a">>,
     pico |-> <<"p", "i", "c", "o">>,
     producto |-> <<"p", "r", "o", "d", "u", "c", "t", "o">>,
     volumen |-> <<"v", "o", "l", "u", "m", "e", "n">>,
     importe |-> <<"i", "m", "p", "o", "r", "t", "e">>,
     ppu |-> <<"p", "p", "u">>,
     sucursal |-> <<"s", "u", "c", "u", "r", "s", "a", "l">>]

LowerLetters ==
    <<"a", "b", "c", "d", "e", "f", "g", "h", "i", "j", "k", "l", "m",
      "n", "o", "p", "q", "r", "s", "t", "u", "v", "w", "x", "y", "z">>
UpperLetters ==
    <<"A", "B", "C", "D", "E", "F", "G", "H", "I", "J", "K", "L", "M",
      "N", "O", "P", "Q", "R", "S", "T", "U", "V", "W", "X", "Y", "Z">>

\* str.upper()
UpperChar(c) ==
    IF \E i \in 1..26 : LowerLetters[i] = c
    THEN UpperLetters[CHOOSE i \in 1..26 : LowerLetters[i] = c]
    ELSE c

Upper(s) == [i \in 1..Len(s) |-> UpperChar(s[i])]

\* w in s
Contains(s, w) == \E i \in 0..(Len(s) - Len(w)) : SubSeq(s, i + 1, i + Len(w)) = w

\* find_data_start: common_headers
CommonHeaders ==
    {Word.Fecha, Word.Pico, Word.Manguera, Word.Volumen, Word.Importe, Word.Surt,
     Word.Mang, Word.FechaYHora}

\* find_data_start: [str(val).strip() for val in row.values if pd.notna(val)]
RowValues(row) == {Strip(row[i].s) : i \in {j \in 1..Len(row) : ~row[j].na}}

\* the index of the last row that holds a common header
find_data_start_LastMatch(grid) ==
    LET hits == {i \in 1..Len(grid) : RowValues(grid[i]) \cap CommonHeaders # {}}
    IN IF hits = {} THEN 0 ELSE (CHOOSE i \in hits : \A j \in hits : j <= i) - 1

\* consolidate_data.find_data_start(df): the index (from 0) of the first row
\* that holds a common header, 0 when no row does
find_data_start(grid) ==
    LET hits == {i \in 1..Len(grid) : RowValues(grid[i]) \cap CommonHeaders # {}}
    IN IF hits = {} THEN 0 ELSE (CHOOSE i \in hits : \A j \in hits : i <= j) - 1

\* pd.read_excel(file_path, skiprows=k): row k is the header, the rows after it
\* the data; [str(col).upper() for col in df.columns]
HeaderLabels(grid, k) ==
    [i \in 1..Len(grid[k + 1]) |->
        Upper(IF grid[k + 1][i].na THEN Word.Unnamed ELSE grid[k + 1][i].s)]

DataRows(grid, k) == SubSeq(grid, k + 2, Len(grid))

AnyLabelHas(labels, words) ==
    \E i \in 1..Len(labels) : \E w \in words : Contains(labels[i], w)

RowAllNull(row) == \A i \in 1..Len(row) : row[i].na

\* the score process_excel_file gives the table read with skiprows=k
SkipScore(grid, k) ==
    LET cols == HeaderLabels(grid, k)
        data == DataRows(grid, k)
        first5 == SubSeq(data, 1, IF Len(data) < 5 THEN Len(data) ELSE 5)
    IN (IF AnyLabelHas(cols, {Word.FECHA}) THEN 2 ELSE 0)
       + (IF AnyLabelHas(cols, {Word.VOLUMEN, Word.LITROS}) THEN 2 ELSE 0)
       + (IF AnyLabelHas(cols, {Word.IMPORTE, Word.MONTO}) THEN 2 ELSE 0)
       + (IF AnyLabelHas(cols, {Word.PRODUCTO, Word.COMBUSTIBLE}) THEN 2 ELSE 0)
       + (IF AnyLabelHas(cols, {Word.PICO, Word.SURTIDOR}) THEN 1 ELSE 0)
       + (IF Len(cols) >= 4 THEN 2 ELSE 0)
       + (IF \A i \in 1..Len(first5) : ~RowAllNull(first5[i]) THEN 1 ELSE 0)

\* the skip depths whose table has a first data row (df.iloc[0] does not raise)
SkipCandidates(grid) == {k \in 0..9 : k + 2 <= Len(grid)}

\* process_excel_file: best_skip_rows, the first depth with the highest score;
\* -1 when no depth is readable (the ValueError that fails the file)
BestSkipRows(grid) ==
    LET cand == SkipCandidates(grid)
    IN IF cand = {} THEN -1
       ELSE CHOOSE k \in cand :
              /\ \A j \in cand : SkipScore(grid, j) <= SkipScore(grid, k)
              /\ \A j \in cand : j < k => SkipScore(grid, j) < SkipScore(grid, k)

\* the rows the grids are made of, four cells wide
GridRowKinds ==
    { <<NaCell, NaCell, NaCell, NaCell>>,
      <<Text(Word.Reporte), NaCell, NaCell, NaCell>>,
      <<Text(Word.Date), Text(<<"3">>), Text(<<"2">>), Text(<<"5", "0">>)>>,
      <<Text(Word.Fecha), NaCell, NaCell, NaCell>>,
      <<Text(Word.Fecha), Text(Word.Volumen), NaCell, NaCell>>,
      <<Text(Word.Fecha), Text(Word.Pico), Text(Word.Volumen), Text(Word.Importe)>>,
      <<Text(Word.FECHA), Text(Word.LITROS), Text(Word.MONTO), Text(Word.PRODUCTO)>> }

Grids == UNION {[1..m -> GridRowKinds] : m \in 1..MaxGridRows}

\* consolidate_data.process_excel_file: data_start = find_data_start(df)
FindDataStart ==
    /\ hdr.kind = "raw"
    /\ hdr' = [hdr EXCEPT !.kind = "scan", !.out = find_data_start(hdr.grid)]
    /\ Rest({"hdr"})

\* migrate_posta_data.process_excel_file: the scored choice of skiprows
SelectSkipRows ==
    /\ hdr.kind = "raw"
    /\ hdr' = [hdr EXCEPT !.kind = "score", !.out = BestSkipRows(hdr.grid)]
    /\ Rest({"hdr"})

\* consolidate_data.process_excel_file, from the read to the cleaned column
\* names: when data_start > 0 the row at data_start gives the labels and the
\* rows after it are the data; otherwise the frame stays as read, its columns
\* named 0, 1, 2, ... and all its rows data.  cols are the labels after
\* str(col).strip(), first is the index (from 0) of the first data row.
UseHeaderRow ==
    /\ hdr.kind = "raw"
    /\ LET data_start == find_data_start(hdr.grid)
           headers == hdr.grid[data_start + 1]
       IN hdr' = [hdr EXCEPT
                     !.kind = "header",
                     !.out = IF data_start > 0
                             THEN [cols |-> [i \in 1..Len(headers) |->
                                                Strip(AsTypeStr(headers[i]))],
                                   first |-> data_start + 1]
                             ELSE [cols |-> [i \in 1..Len(hdr.grid[1]) |->
                                                <<(<<"0", "1", "2", "3", "4", "5", "6", "7",
                                                     "8", "9">>)[i]>>],
                                   first |-> 0]]
    /\ Rest({"hdr"})

SpecHdr ==
    /\ hdr \in {[kind |-> "raw", grid |-> g, out |-> 0] : g \in Grids}
    /\ Idle({"hdr"})
    /\ [][FindDataStart \/ SelectSkipRows \/ UseHeaderRow]_vars

\* ------------------------------------------------- runs and persistence (4.7)
\* A file is [kind, good]: kind is its extension family, good says whether it
\* can be read and parsed. A good file yields one record per row of FileRows;
\* a record is <<source, file, row>>.
Folders == <<"Cepia", "Hersu", "Erezcano">>

\* the layout of the data directory: files 1 and 2 in data/Cepia, file 3 in
\* data/Hersu, the others in data/Erezcano
FolderOf(f) == IF f <= 2 THEN 1 ELSE IF f = 3 THEN 2 ELSE 3

FileRows == <<1, 2>>

FileKinds ==
    {[kind |-> k, good |-> g] : k \in {"xls", "csv", "xml"}, g \in BOOLEAN}
        \cup {[kind |-> "other", good |-> TRUE]}

LegacyRec == <<"legacy", 0, 1>>

RecordsOf(src, f) == [i \in 1..Len(FileRows) |-> <<src, f, FileRows[i]>>]

\* os.listdir(folder_path), files only: the files of a folder, in listing order
FilesIn(folder) == SelectSeq([f \in 1..NFiles |-> f], LAMBDA f : FolderOf(f) = folder)

\* Path('data').glob('**/*.xls') + glob('**/*.xlsx')
ExcelFiles == SelectSeq([f \in 1..NFiles |-> f], LAMBDA f : files[f].kind = "xls")

\* process_folder's dispatch on the extension, with a file that cannot be read
\* or parsed: process_excel_file and process_excel_xml_file catch the exception
\* and return None, process_csv_file has no handler and lets it escape
Raises(f) == files[f].kind = "csv" /\ ~files[f].good

\* what a run says of file f beyond "Processing file": the record count of a
\* file that was read, the error of a file whose reader caught an exception,
\* nothing of a file whose extension no branch of process_folder matches
Logged(kind, f) ==
    IF kind = "posta" /\ files[f].kind = "other" THEN "nothing"
    ELSE IF files[f].good THEN "processed" ELSE "error"

\* a frame that holds the first row of the file only
FrameOf_FirstRow(f) ==
    IF files[f].kind \in {"xls", "csv", "xml"} /\ files[f].good
    THEN <<RecordsOf("posta", f)[1]>>
    ELSE <<>>

\* the DataFrame process_folder gets for file f (empty for None)
FrameOf(f) ==
    IF files[f].kind \in {"xls", "csv", "xml"} /\ files[f].good
    THEN RecordsOf("posta", f)
    ELSE <<>>

\* consolidate_data.process_excel_file(file_path): None on any exception
PetrolFrameOf(f) == IF files[f].good THEN RecordsOf("petrol", f) ELSE <<>>

\* to_sql(..., if_exists='append') in place of 'replace'
PostaWrite_Append(old, df) == old \o df

\* combined_df.to_sql('despachos', conn, if_exists='replace', index=False)
PostaWrite(old, df) == df

\* an append that leaves out the records the table holds already
PetrolWrite_Dedup(old, df) ==
    old \o SelectSeq(df, LAMBDA r : \A i \in 1..Len(old) : old[i] # r)

\* df.to_sql('despachos', conn, if_exists='append', index=False)
PetrolWrite(old, df) == old \o df

IdleRun ==
    [kind |-> "none", pc |-> "idle", folder |-> 0, todo |-> <<>>,
     all_data |-> <<>>, dfs |-> <<>>, writes |-> 0, log |-> <<>>]

IdleXml == [pc |-> "idle", f |-> 0, i |-> 0, pending |-> <<>>, data |-> <<>>]

\* a completed run: what ran, how it ended, and the stores as it left them
Entry(op, end, t, c, x) == [op |-> op, end |-> end, table |-> t, csv |-> c, fuel |-> x]

\* the last three completed runs (the stores' first contents count as one),
\* and the number of runs
Remember(e) ==
    [n |-> hist.n + 1,
     last |-> IF Len(hist.last) < 3 THEN Append(hist.last, e)
              ELSE <<hist.last[2], hist.last[3], e>>]

RunInit ==
    /\ files \in [1..NFiles -> FileKinds]
    /\ csv \in {<<>>, <<LegacyRec>>}
    /\ table \in {<<>>, <<LegacyRec>>}
    /\ run = IdleRun
    /\ xml = IdleXml
    /\ hist = [n |-> 0, last |-> <<Entry("init", "none", table, csv, <<>>)>>]
    /\ Idle({"run"})

CanStart == run.pc = "idle" /\ xml.pc = "idle" /\ hist.n < MaxRuns

\* migrate_posta_data.main: process_folder("data/Cepia", ...) begins
StartPosta ==
    /\ CanStart
    /\ run' = [IdleRun EXCEPT !.kind = "posta", !.pc = "files", !.folder = 1,
                              !.todo = FilesIn(1)]
    /\ UNCHANGED <<files, csv, table, xml, hist>> /\ Rest({"run"})

\* consolidate_data.main: the loop over excel_files begins
StartConsolidate ==
    /\ CanStart
    /\ run' = [IdleRun EXCEPT !.kind = "consolidate",
                              !.pc = IF ExcelFiles = <<>> THEN "aborted" ELSE "files",
                              !.todo = ExcelFiles]
    /\ UNCHANGED <<files, csv, table, xml, hist>> /\ Rest({"run"})

\* one iteration of the file loop of process_folder / of consolidate_data.main
ProcessFile ==
    /\ run.pc = "files" /\ run.todo # <<>>
    /\ LET f == Head(run.todo)
       IN run' = IF run.kind = "posta" /\ Raises(f)
                 THEN [run EXCEPT !.pc = "crashed"]
                 ELSE [run EXCEPT !.todo = Tail(run.todo),
                                  !.log = Append(run.log, <<f, Logged(run.kind, f)>>),
                                  !.all_data = run.all_data \o
                                      (IF run.kind = "posta" THEN FrameOf(f) ELSE PetrolFrameOf(f))]
    /\ UNCHANGED <<files, csv, table, xml, hist>> /\ Rest({"run"})

\* migrate_posta_data.main: process_folder returns pd.concat(all_data), the
\* frame is standardized and kept if not empty; the next folder begins
FinishFolder ==
    /\ run.kind = "posta" /\ run.pc = "files" /\ run.todo = <<>>
    /\ run' = IF run.folder < Len(Folders)
              THEN [run EXCEPT !.folder = run.folder + 1, !.todo = FilesIn(run.folder + 1),
                               !.all_data = <<>>, !.dfs = run.dfs \o run.all_data]
              ELSE [run EXCEPT !.pc = "combine", !.all_data = <<>>,
                               !.dfs = run.dfs \o run.all_data]
    /\ UNCHANGED <<files, csv, table, xml, hist>> /\ Rest({"run"})

\* migrate_posta_data.main: "No data found in any folder" and return, or the
\* one to_sql call
PersistPosta ==
    /\ run.kind = "posta" /\ run.pc = "combine"
    /\ IF run.dfs = <<>>
       THEN run' = [run EXCEPT !.pc = "aborted"] /\ table' = table
       ELSE /\ run' = [run EXCEPT !.pc = "persisted", !.writes = run.writes + 1]
            /\ table' = PostaWrite(table, run.dfs)
    /\ UNCHANGED <<files, csv, xml, hist>> /\ Rest({"run"})

\* consolidate_data.main: "No data was processed successfully" and return, or
\* the one to_csv call
PersistConsolidate ==
    /\ run.kind = "consolidate" /\ run.pc = "files" /\ run.todo = <<>>
    /\ IF run.all_data = <<>>
       THEN run' = [run EXCEPT !.pc = "aborted"] /\ csv' = csv
       ELSE /\ run' = [run EXCEPT !.pc = "persisted", !.writes = run.writes + 1]
            /\ csv' = run.all_data
    /\ UNCHANGED <<files, table, xml, hist>> /\ Rest({"run"})

\* the script ends: by return, or by the uncaught exception
EndRun ==
    /\ run.pc \in {"persisted", "aborted", "crashed"}
    /\ hist' = Remember(Entry(run.kind, run.pc, table, csv, xml.data))
    /\ run' = IdleRun
    /\ UNCHANGED <<files, csv, table, xml>> /\ Rest({"run"})

\* migrate_petrol_data.main: the consolidated CSV, standardized, is appended in
\* one to_sql call; a missing CSV raises inside the try and nothing is written
AppendPetrol ==
    /\ CanStart
    /\ table' = IF csv = <<>> THEN table ELSE PetrolWrite(table, csv)
    /\ hist' = Remember(Entry("petrol", IF csv = <<>> THEN "aborted" ELSE "persisted",
                            table', csv, xml.data))
    /\ UNCHANGED <<files, csv, run, xml>> /\ Rest({"run"})

\* database.migrate_csv_to_db: the consolidated CSV replaces the table in one
\* to_sql call; a missing CSV raises and nothing is written
MigrateCsvToDb ==
    /\ CanStart
    /\ table' = IF csv = <<>> THEN table ELSE PostaWrite(table, csv)
    /\ hist' = Remember(Entry("csvdb", IF csv = <<>> THEN "crashed" ELSE "persisted",
                            table', csv, xml.data))
    /\ UNCHANGED <<files, csv, run, xml>> /\ Rest({"run"})

\* process_xml.process_xml_file(xml_file): ET.parse, which raises on a file
\* that is no XML
StartXml ==
    /\ CanStart
    /\ \E f \in 1..NFiles :
          /\ files[f].kind = "xml"
          /\ xml' = [xml EXCEPT !.pc = IF files[f].good THEN "rows" ELSE "crashed",
                                !.f = f, !.i = 1, !.pending = <<>>]
    /\ UNCHANGED <<files, csv, table, run, hist>> /\ Rest({"run"})

\* one iteration of the row loop: cursor.execute(INSERT ...), not yet committed
XmlInsertRow ==
    /\ xml.pc = "rows" /\ xml.i <= Len(FileRows)
    /\ xml' = [xml EXCEPT !.i = xml.i + 1,
                          !.pending = Append(xml.pending, <<"xml", xml.f, FileRows[xml.i]>>)]
    /\ UNCHANGED <<files, csv, table, run, hist>> /\ Rest({"run"})

\* conn.commit() after the loop
XmlCommit ==
    /\ xml.pc = "rows" /\ xml.i > Len(FileRows)
    /\ xml' = [xml EXCEPT !.pc = "persisted", !.data = xml.data \o xml.pending,
                          !.pending = <<>>]
    /\ UNCHANGED <<files, csv, table, run, hist>> /\ Rest({"run"})

\* process_xml_file ends: by return, or by the uncaught exception
EndXml ==
    /\ xml.pc \in {"persisted", "crashed"}
    /\ hist' = Remember(Entry("xml", xml.pc, table, csv, xml.data))
    /\ xml' = [xml EXCEPT !.pc = "idle", !.f = 0, !.i = 0, !.pending = <<>>]
    /\ UNCHANGED <<files, csv, table, run>> /\ Rest({"run"})

Init == RunInit

Next ==
    \/ StartPosta \/ StartConsolidate \/ ProcessFile \/ FinishFolder
    \/ PersistPosta \/ PersistConsolidate \/ EndRun
    \/ AppendPetrol \/ MigrateCsvToDb
    \/ StartXml \/ XmlInsertRow \/ XmlCommit \/ EndXml

Spec == Init /\ [][Next]_vars

\* ------------------------------------------------- query interface (6)
\* A stored row is [fecha, sucursal, producto, pico]. fecha is the day number
\* of a date: the table holds it as text 'YYYY-MM-DD', which compares as the
\* dates do. A filter is not given ("none"), one value, or a list ("many").
Name ==
    [PostaCepia |-> <<"P", "o", "s", "t", "a", " ", "C", "e", "p", "i", "a">>,
     PostaHersu |-> <<"P", "o", "s", "t", "a", " ", "H", "e", "r", "s", "u">>,
     Petrol |-> <<"P", "e", "t", "r", "o", "l">>,
     posta |-> <<"p", "o", "s", "t", "a">>,
     POSTA |-> <<"P", "O", "S", "T", "A">>,
     Posta |-> <<"P", "o", "s", "t", "a">>,
     Her |-> <<"h", "e", "r">>]

QryRows ==
    { [fecha |-> d, sucursal |-> c[1], producto |-> c[2], pico |-> c[3]] :
        d \in 1..2,
        c \in { <<Name.PostaCepia, Label.GNC, "1">>, <<Name.PostaHersu, Label.SUPER, "2">>,
                <<Name.Petrol, Label.GNC, "2">>, <<Name.Petrol, Label.SUPER, "1">> } }

QryFilters ==
    [organization : {[k |-> "none"]} \cup
                    {[k |-> "one", v |-> o] : o \in {Name.posta, Name.Petrol, Name.Her}},
     producto : {[k |-> "none"], [k |-> "one", v |-> Label.GNC],
                 [k |-> "many", v |-> <<>>], [k |-> "many", v |-> <<Label.SUPER, Label.DIESEL>>]},
     start_date : {[k |-> "none"], [k |-> "one", v |-> 2]},
     end_date : {[k |-> "none"], [k |-> "one", v |-> 1], [k |-> "one", v |-> 2]},
     pico : {[k |-> "none"], [k |-> "one", v |-> "1"],
             [k |-> "many", v |-> <<>>], [k |-> "many", v |-> <<"2", "3">>]}]

\* "if producto:" and "if pico:": None and the empty list add no condition;
\* "col = ?" for one value, "col IN (?, ...)" for a list
FilterHolds(flt, x) ==
    CASE flt.k = "none" -> TRUE
      [] flt.k = "one" -> x = flt.v
      [] flt.k = "many" -> Len(flt.v) = 0 \/ \E i \in 1..Len(flt.v) : flt.v[i] = x

\* the WHERE clause get_despachos builds; LIKE ignores the case of letters
Matches(r, f) ==
    /\ f.organization.k = "none"
         \/ IF Upper(f.organization.v) = Name.POSTA
            THEN StartsWith(Upper(r.sucursal), Name.POSTA)
            ELSE Contains(Upper(r.sucursal), Upper(f.organization.v))
    /\ FilterHolds(f.producto, r.producto)
    /\ f.start_date.k = "none" \/ r.fecha >= f.start_date.v
    /\ f.end_date.k = "none" \/ r.fecha <= f.end_date.v
    /\ FilterHolds(f.pico, r.pico)

\* a query that returns the whole table
get_despachos_All(t, f) == t

\* database.get_despachos: SELECT * FROM despachos WHERE ... without ORDER BY,
\* which SQLite answers by a scan of the table in the order of insertion
get_despachos(t, f) == SelectSeq(t, LAMBDA r : Matches(r, f))

Query ==
    /\ ~qry.done
    /\ qry' = [qry EXCEPT !.done = TRUE, !.out = get_despachos(qry.table, qry.f)]
    /\ Rest({"qry"})

SpecQry ==
    /\ qry \in {[done |-> FALSE, table |-> t, f |-> f, out |-> <<>>] :
                  t \in UNION {[1..m -> QryRows] : m \in 0..MaxStored}, f \in QryFilters}
    /\ Idle({"qry"})
    /\ [][Query]_vars

\* ------------------------------------------- XML row extraction (4.1, 4.4)
\* A row of an XML spreadsheet holds cells for some of the columns 1..MaxCols,
\* in column order. A cell is [col, idx]: col is the column it stands in, idx
\* its ss:Index attribute, 0 when it has none. A cell that follows a gap has
\* the attribute; the others have it in the rows written with it everywhere.
\* The value of a cell is named by its column.
XmlRows ==
    { [j \in 1..Cardinality(P) |->
          LET c == CHOOSE x \in P : Cardinality({y \in P : y < x}) = j - 1
          IN [col |-> c, idx |-> IF every \/ (c > 1 /\ (c - 1) \notin P) THEN c ELSE 0]] :
        P \in SUBSET (1..MaxCols), every \in BOOLEAN }

\* The content of a row is "full" (every cell holds a text that converts),
\* "blank" (a required cell holds no text) or "bad" (a date or a number does
\* not convert).
\*
\* the fields read from a row: none, or for each field's column number the
\* column of the cell its value was taken from
NoFields == [emitted |-> FALSE, got |-> <<>>]

\* migrate_posta_data.process_excel_xml_file: cell_data[int(index)] for the
\* cells that carry ss:Index; fewer than 6 of them, or a required one missing,
\* skips the row
IndexKeyedFields(cells) ==
    LET cell_data == {i \in 1..Len(cells) : cells[i].idx # 0}
        at(k) == {i \in cell_data : cells[i].idx = k}
    IN IF Cardinality({cells[i].idx : i \in cell_data}) < 6
          \/ \E k \in {1, 2, 3, 5, 6} : at(k) = {}
       THEN NoFields
       ELSE [emitted |-> TRUE,
             got |-> [k \in {1, 2, 3, 5, 6} |->
                         cells[CHOOSE i \in at(k) : \A j \in at(k) : j <= i].col]]

\* process_xml.process_xml_file: cells[0], cells[1], cells[2], cells[4],
\* cells[5] and cells[6] of a row of at least 7 cells
PositionalFields(cells) ==
    IF Len(cells) < 7 THEN NoFields
    ELSE [emitted |-> TRUE, got |-> [k \in {1, 2, 3, 5, 6, 7} |-> cells[k].col]]

\* process_excel_xml_file, one row: a row with an empty required field, or
\* with a date or number that does not convert, is passed over; the reader
\* keeps no count of the rows it passes over
ExtractPostaXml ==
    /\ xrow.reader = "none"
    /\ xrow' = [xrow EXCEPT !.reader = "migrate_posta_data",
                            !.out = IF xrow.content = "full"
                                    THEN IndexKeyedFields(xrow.cells) ELSE NoFields]
    /\ Rest({"xrow"})

\* process_xml_file, one row: errors += 1 for a row of 7 cells or more that
\* has an empty required field or raises in a conversion; a shorter row is
\* passed over by the 'if len(cells) >= 7'
ExtractProcessXml ==
    /\ xrow.reader = "none"
    /\ xrow' = [xrow EXCEPT !.reader = "process_xml",
                            !.out = IF xrow.content = "full"
                                    THEN PositionalFields(xrow.cells) ELSE NoFields,
                            !.errors = IF Len(xrow.cells) >= 7 /\ xrow.content # "full"
                                       THEN 1 ELSE 0]
    /\ Rest({"xrow"})

SpecXrow ==
    /\ xrow \in {[reader |-> "none", cells |-> r, content |-> c, out |-> NoFields,
                    errors |-> 0] : r \in XmlRows, c \in {"full", "blank", "bad"}}
    /\ Idle({"xrow"})
    /\ [][ExtractPostaXml \/ ExtractProcessXml]_vars

\* ---------------------------------------------------------------------------
\* Column classification
\*
\* A sheet is the sequence of its columns, left to right.  A column is its
\* label and whether one of its first five values, as text, holds a '/'.
\* pandas renames a repeated label to "label.1"; that suffix changes no
\* keyword match, so a repeated label stands for such a pair.  The result
\* gives, for each field of the record, the position of the column it is
\* read from, 0 when there is none.
\* ---------------------------------------------------------------------------
MaxSheetCols == 3

SheetColumns ==
    [label : {Word.Fecha, Word.FechaFinal, Word.fecha, Word.Pico, Word.Volumen,
              Word.Monto, Word.Unnamed},
     slash : BOOLEAN]

\* process_excel_file, the loop over df.columns: the first keyword list, in
\* the order of the tests, that has a word in the upper-cased label
FieldClass(label) ==
    LET has(words) == \E w \in words : Contains(Upper(label), w)
    IN CASE has({Word.PICO, Word.SURTIDOR, Word.BOMBA}) -> "pico"
         [] has({Word.PRODUCTO, Word.COMBUSTIBLE, Word.TIPO}) -> "producto"
         [] has({Word.VOLUMEN, Word.LITROS, Word.CANTIDAD}) -> "volumen"
         [] has({Word.IMPORTE, Word.MONTO, Word.TOTAL, Word.VALOR}) -> "importe"
         [] has({Word.PRECIO, Word.PPU, Word.UNITARIO}) -> "ppu"
         [] OTHER -> "none"

\* process_excel_file, sheets other than Hersu's: the date column is the
\* first column with a '/' in its sample values, or else the first column
\* whose label holds FECHA or DATE; every other field is assigned again by
\* each column of its class, so the last one stays
ClassifiedColumns(cols) ==
    LET n == Len(cols)
        first(S) == IF S = {} THEN 0 ELSE CHOOSE i \in S : \A j \in S : i <= j
        last(S) == IF S = {} THEN 0 ELSE CHOOSE i \in S : \A j \in S : j <= i
        sniffed == first({i \in 1..n : cols[i].slash})
        named == first({i \in 1..n : \E w \in {Word.FECHA, Word.DATE} :
                                          Contains(Upper(cols[i].label), w)})
        fecha_col == IF sniffed # 0 THEN sniffed ELSE named
        of(class) == last({i \in 1..n : FieldClass(cols[i].label) = class})
    IN IF fecha_col = 0 THEN [raised |-> TRUE]
       ELSE [raised |-> FALSE, fecha |-> fecha_col, pico |-> of("pico"),
             producto |-> of("producto"), volumen |-> of("volumen"),
             importe |-> of("importe"), ppu |-> of("ppu")]

\* standardize_dataframe: of the columns with one label the last is kept,
\* the labels of column_mappings are renamed, and the required columns are
\* selected by name; a name carried by two columns then selects both, and
\* neither the date conversion nor the write accepts that
StandardizedColumns(cols) ==
    LET n == Len(cols)
        kept == {i \in 1..n : \A j \in 1..n : j > i => cols[j].label # cols[i].label}
        renamed(l) == CASE l = Word.FechaFinal -> Word.fecha
                        [] l = Word.HoraFinal -> Word.hora
                        [] l = Word.Manguera -> Word.pico
                        [] l = Word.Combust -> Word.producto
                        [] l = Word.Volumen -> Word.volumen
                        [] l = Word.Monto -> Word.importe
                        [] l = Word.Precio -> Word.ppu
                        [] OTHER -> l
        named(name) == {i \in kept : renamed(cols[i].label) = name}
        required == {Word.fecha, Word.hora, Word.pico, Word.producto, Word.volumen,
                     Word.importe, Word.ppu, Word.sucursal}
        of(name) == IF named(name) = {} THEN 0 ELSE CHOOSE i \in named(name) : TRUE
    IN IF \E name \in required : Cardinality(named(name)) > 1 THEN [raised |-> TRUE]
       ELSE [raised |-> FALSE, fecha |-> of(Word.fecha), pico |-> of(Word.pico),
             producto |-> of(Word.producto), volumen |-> of(Word.volumen),
             importe |-> of(Word.importe), ppu |-> of(Word.ppu)]

ClassifyColumns ==
    /\ cls.by = "none"
    /\ cls' = [cls EXCEPT !.by = "process_excel_file", !.out = ClassifiedColumns(cls.cols)]
    /\ Rest({"cls"})

StandardizeColumns ==
    /\ cls.by = "none"
    /\ cls' = [cls EXCEPT !.by = "standardize_dataframe",
                          !.out = StandardizedColumns(cls.cols)]
    /\ Rest({"cls"})

SpecCls ==
    /\ cls \in {[by |-> "none", cols |-> c, out |-> [raised |-> FALSE]] :
                   c \in UNION {[1..n -> SheetColumns] : n \in 1..MaxSheetCols}}
    /\ Idle({"cls"})
    /\ [][ClassifyColumns \/ StandardizeColumns]_vars

\* ---------------------------------------------------------------------------
\* Date parsing (consolidate_data.clean_date)
\*
\* A format is the sequence of its directives and literals, the '%' left out:
\* '%d/%m/%Y' is <<"d", "/", "m", "/", "Y">>.  A timestamp is the record of
\* the six fields, the time fields 0 when the format has none.
\* ---------------------------------------------------------------------------
MaxTailLen == 2

\* the match of the format's pattern against the text from position i on, as
\* strptime builds it: %Y is four digits; %d, %m, %H, %M and %S try two
\* digits before one, within the range of the field (%d also a blank and a
\* digit); a blank of the format is one blank or more; the rest is literal.
\* Seconds of 60 and 61 are left out.
RECURSIVE StrpMatch(_, _, _, _, _)
StrpMatch(s, i, fmt, j, acc) ==
    LET t == fmt[j]
        fail == [ok |-> FALSE]
        digits(n) == \A q \in i..(i + n - 1) : q <= Len(s) /\ s[q] \in Digits
        val(n) == DigitsValue(SubSeq(s, i, i + n - 1))
        take(n, lo, hi) ==
            IF digits(n) /\ val(n) >= lo /\ val(n) <= hi
            THEN StrpMatch(s, i + n, fmt, j + 1, [acc EXCEPT ![t] = val(n)])
            ELSE fail
        lo == IF t \in {"d", "m"} THEN 1 ELSE 0
        hi == CASE t = "d" -> 31 [] t = "m" -> 12 [] t = "H" -> 23 [] OTHER -> 59
        two == take(2, lo, hi)
        one == take(1, lo, 9)
        padded == IF t = "d" /\ i + 1 <= Len(s) /\ s[i] = Space /\ s[i + 1] \in Digits \ {"0"}
                  THEN StrpMatch(s, i + 2, fmt, j + 1,
                                 [acc EXCEPT ![t] = DigitVal(s[i + 1])])
                  ELSE fail
        blanks == RunLen(s, i, {Space})
    IN IF j > Len(fmt) THEN [ok |-> TRUE, end |-> i, f |-> acc]
       ELSE CASE t = "Y" -> take(4, 0, 9999)
              [] t \in {"d", "m", "H", "M", "S"} ->
                    IF two.ok THEN two ELSE IF one.ok THEN one ELSE padded
              [] t = Space ->
                    IF blanks = 0 THEN fail ELSE StrpMatch(s, i + blanks, fmt, j + 1, acc)
              [] OTHER ->
                    IF i <= Len(s) /\ s[i] = t THEN StrpMatch(s, i + 1, fmt, j + 1, acc)
                    ELSE fail

\* pd.to_datetime(text, format=fmt): the pattern has to match, nothing may
\* remain after the match, the day has to exist in its month, and the year
\* has to be one a Timestamp holds (years wholly inside its range)
to_datetime(s, fmt) ==
    LET m == StrpMatch(s, 1, fmt, 1, [Y |-> 0, m |-> 0, d |-> 0, H |-> 0, M |-> 0, S |-> 0])
        leap(y) == y % 4 = 0 /\ (y % 100 # 0 \/ y % 400 = 0)
        days(y, mo) == CASE mo = 2 -> IF leap(y) THEN 29 ELSE 28
                         [] mo \in {4, 6, 9, 11} -> 30
                         [] OTHER -> 31
    IN IF /\ m.ok /\ m.end = Len(s) + 1
          /\ m.f.Y \in 1678..2261 /\ m.f.d <= days(m.f.Y, m.f.m)
       THEN [ok |-> TRUE, at |-> m.f]
       ELSE [ok |-> FALSE]

\* the formats clean_date tries, in its order
DateFormats ==
    << <<"d", "/", "m", "/", "Y">>,
       <<"d", "/", "m", "/", "Y", " ", "H", ":", "M", ":", "S">>,
       <<"Y", "-", "m", "-", "d", " ", "H", ":", "M", ":", "S">> >>

\* clean_date: None for a cell that is no str; re.sub(r'[^\d/: ].*$', '', text)
\* cuts the text at its first character that is no digit, '/', ':' or blank;
\* then the first format that converts gives the result, None if none does.
\* fmt is the index of that format, 0 for None.
clean_date(cell) ==
    LET keep == RunLen(cell.s, 1, Digits \cup {"/", ":", Space})
        cut == SubSeq(cell.s, 1, keep)
        hits == {k \in 1..Len(DateFormats) : to_datetime(cut, DateFormats[k]).ok}
        k1 == CHOOSE k \in hits : \A h \in hits : k <= h
    IN IF cell.type # "str" \/ hits = {} THEN [fmt |-> 0]
       ELSE [fmt |-> k1, at |-> to_datetime(cut, DateFormats[k1]).at]

\* the cells: an empty one, a datetime of the sheet, and texts made of a
\* date of the sheet followed by a short tail
DateInputs ==
    LET examples ==
            { <<"1", "2", "/", "0", "3", "/", "2", "0", "2", "4">>,
              <<"1", "2", "/", "0", "3", "/", "2", "0", "2", "4", " ",
                "1", "0", ":", "3", "0", ":", "0", "0">>,
              <<"2", "0", "2", "4", "-", "0", "3", "-", "1", "2", " ",
                "1", "0", ":", "3", "0", ":", "0", "0">>,
              <<"1", "/", "3", "/", "2", "0", "2", "4">>,
              <<" ", "5", "/", "0", "3", "/", "2", "0", "2", "4">>,
              <<"3", "1", "/", "0", "2", "/", "2", "0", "2", "4">>,
              <<"1", "2", "/", "1", "3", "/", "2", "0", "2", "4">>,
              <<"1", "2", "/", "0", "3", "/", "2", "4">>,
              <<"1", "2", "/", "0", "3", "/", "2", "0", "2", "4", " ", "1", "0", ":", "3", "0">>,
              <<>> }
        tails == StringsUpTo({"x", Space, "7", "-"}, MaxTailLen)
    IN {[type |-> "nan", s |-> <<>>], [type |-> "datetime", s |-> <<>>]}
       \cup {[type |-> "str", s |-> e \o t] : e \in examples, t \in tails}

\* dates = df['Fecha'].apply(clean_date), one cell
CleanDate ==
    /\ ~dat.done
    /\ dat' = [dat EXCEPT !.done = TRUE, !.out = clean_date(dat.in)]
    /\ Rest({"dat"})

SpecDat ==
    /\ dat \in {[done |-> FALSE, in |-> c, out |-> [fmt |-> 0]] : c \in DateInputs}
    /\ Idle({"dat"})
    /\ [][CleanDate]_vars

\* ---------------------------------------------------------------------------
\* Footer stripping
\*
\* The rows of a table, each by the cell of its first column ('Fecha y Hora'
\* of a Hersu sheet, 'Fecha final' of a CSV export).  The result is the
\* sequence of the positions of the rows left.
\* ---------------------------------------------------------------------------
MaxFootRows == 3

FootCells ==
    {NaCell, Text(Word.Date), Text(Word.CANTIDAD), Text(Word.Surtidor),
     Text(Word.Date \o <<Space>> \o Word.CANTIDAD),
     Text(Word.Date \o <<Space>> \o Word.Surtidor)}

\* df[~hit]: the rows whose cell is no hit, in their order
RowsWithout(rows, hit) ==
    SelectSeq([i \in 1..Len(rows) |-> i], LAMBDA i : ~hit[i])

\* process_excel_file, Hersu sheets:
\* df[~df['Fecha y Hora'].astype(str).str.contains('CANTIDAD')]
StripHersuSummary ==
    /\ foot.by = "none"
    /\ foot' = [foot EXCEPT
                    !.by = "process_excel_file",
                    !.left = RowsWithout(foot.rows,
                                [i \in 1..Len(foot.rows) |->
                                    Contains(AsTypeStr(foot.rows[i]), Word.CANTIDAD)])]
    /\ Rest({"foot"})

\* process_csv_file: df[~df['Fecha final'].str.contains('Surtidor', na=False)];
\* a column without any text has no .str accessor, and the call raises
StripCsvSummary ==
    /\ foot.by = "none"
    /\ foot' = IF \A i \in 1..Len(foot.rows) : foot.rows[i].na
               THEN [foot EXCEPT !.by = "process_csv_file", !.raised = TRUE]
               ELSE [foot EXCEPT
                        !.by = "process_csv_file",
                        !.left = RowsWithout(foot.rows,
                                    [i \in 1..Len(foot.rows) |->
                                        /\ ~foot.rows[i].na
                                        /\ Contains(foot.rows[i].s, Word.Surtidor)])]
    /\ Rest({"foot"})

SpecFoot ==
    /\ foot \in {[by |-> "none", rows |-> r, left |-> <<>>, raised |-> FALSE] :
                    r \in UNION {[1..n -> FootCells] : n \in 1..MaxFootRows}}
    /\ Idle({"foot"})
    /\ [][StripHersuSummary \/ StripCsvSummary]_vars

\* ---------------------------------------------------------------------------
\* Dashboard tables (tabs/gnc.py, tabs/liquidos.py)
\*
\* Every interaction with a widget runs the script of the tab again.  n is
\* the number of records that match the filters, page_size the choice of the
\* select box, stored the page kept in st.session_state, shown the number of
\* rows of the slice the run displayed.
\* ---------------------------------------------------------------------------
MaxRecords == 30

\* one run of the pagination code with n records and the page size given:
\* the page is read from the session state, the slice is cut for that page,
\* and a button that was clicked stores the page before or after it
PageRun(n, page_size, clicked) ==
    LET current_page == pag.stored
        start_idx == (current_page - 1) * page_size
        end_idx == start_idx + page_size
        upto == IF end_idx < n THEN end_idx ELSE n
    IN [n |-> n, page_size |-> page_size,
        stored |-> CASE clicked = "prev" -> current_page - 1
                     [] clicked = "next" -> current_page + 1
                     [] OTHER -> current_page,
        shown |-> IF upto > start_idx THEN upto - start_idx ELSE 0]

\* "Siguiente", drawn when current_page < total_pages
ClickNext ==
    /\ pag.stored < (pag.n + pag.page_size - 1) \div pag.page_size
    /\ pag' = PageRun(pag.n, pag.page_size, "next")
    /\ Rest({"pag"})

\* "Anterior", drawn when current_page > 1
ClickPrevious ==
    /\ pag.stored > 1
    /\ pag' = PageRun(pag.n, pag.page_size, "prev")
    /\ Rest({"pag"})

\* the select box "Registros por pagina"
ChangePageSize ==
    /\ \E size \in {10, 25, 50, 100} \ {pag.page_size} :
            pag' = PageRun(pag.n, size, "none")
    /\ Rest({"pag"})

\* a filter widget: another number of records matches
ChangeFilter ==
    /\ \E n \in (0..MaxRecords) \ {pag.n} : pag' = PageRun(n, pag.page_size, "none")
    /\ Rest({"pag"})

SpecPag ==
    /\ pag \in {[n |-> n, page_size |-> 25, stored |-> 1,
                  shown |-> IF n < 25 THEN n ELSE 25] : n \in 0..MaxRecords}
    /\ Idle({"pag"})
    /\ [][ClickNext \/ ClickPrevious \/ ChangePageSize \/ ChangeFilter]_vars

\* ---- C4 ----------------------------------------------------------------
\* the value of a plain decimal text (digits, at most one point), written out
\* digit by digit; Absent when the text is no plain decimal
C4_Absent == [k |-> "absent", n |-> 0, d |-> 1]

RECURSIVE C4_Digits(_, _)
C4_Digits(t, acc) ==
    IF t = <<>> THEN acc ELSE C4_Digits(Tail(t), 10 * acc + DigitVal(Head(t)))

C4_Decimal(t) ==
    LET neg == t # <<>> /\ Head(t) = "-"
        u == IF neg THEN Tail(t) ELSE t
        whole == SelectSeq(u, LAMBDA c : c # ".")
        points == {i \in 1..Len(u) : u[i] = "."}
        places == IF points = {} THEN 0 ELSE Len(u) - (CHOOSE i \in points : TRUE)
    IN IF whole # <<>> /\ Cardinality(points) <= 1 /\ \A i \in 1..Len(whole) : whole[i] \in Digits
       THEN Frac((IF neg THEN -1 ELSE 1) * C4_Digits(whole, 0), Pow10(places))
       ELSE C4_Absent

\* the text the separator rule of the claim makes of the stripped text v
C4_RuleText(v) ==
    LET dots == \E i \in 1..Len(v) : v[i] = "."
        commas == \E i \in 1..Len(v) : v[i] = ","
        noDots == SelectSeq(v, LAMBDA c : c # ".")
        commaToPoint(t) == [i \in 1..Len(t) |-> IF t[i] = "," THEN "." ELSE t[i]]
    IN IF dots /\ commas THEN commaToPoint(noDots)
       ELSE IF dots /\ Cardinality({i \in 1..Len(v) : v[i] = "."}) > 1 THEN noDots
       ELSE IF commas THEN commaToPoint(v)
       ELSE v

C4_FollowsRule ==
    LET want == C4_Decimal(C4_RuleText(StripUnits(num.in.s)))
    IN want # C4_Absent => num.out = want

C4_Examples ==
    /\ num.in = Text(<<"$", "1", ".", "2", "3", "4", ",", "5", "6">>)
            => num.out = Frac(123456, 100)
    /\ num.in = Text(<<"1", ",", "5">>) => num.out = Frac(15, 10)
    /\ num.in = Text(<<"1", "2", ".", "3", "4", "5", ".", "6", "7", "8">>)
            => num.out = Num(12345678)

\* C4: amount, volume and unit-price text is cleaned by the separator rule
\* (both '.' and ',': '.' is thousands and ',' decimal; several '.' alone:
\* thousands; ',' alone: decimal), so "$1.234,56" gives 1234.56, "1,5" gives 1.5
\* and "12.345.678" gives 12345678, in the delimited-text path and in the
\* spreadsheet path alike. The rule is stated on texts that carry no symbol or
\* unit to strip; the three examples are stated as given.
C4_NumericCleaning ==
    (num.path \in {"csv", "hersu_importe", "hersu_volumen"} /\ ~num.in.na)
        => /\ num.in.s = StripUnits(num.in.s) => C4_FollowsRule
           /\ C4_Examples

\* clean_numeric_string alone follows the separator rule on every input
CleanNumericStringFollowsRule ==
    (num.path = "csv" /\ ~num.in.na) => (C4_FollowsRule /\ C4_Examples)

\* ---- C1 ----------------------------------------------------------------
AsmKept(i) == \E j \in 1..Len(asm.out) : asm.out[j].src = i

AsmRecordOf(i) == asm.out[CHOOSE j \in 1..Len(asm.out) : asm.out[j].src = i]

\* C1: in every record an ingestion path emits without a unit price read from
\* the row, unit_price = amount / volume when the volume is a non-zero number,
\* and unit_price = 0 when the volume is 0 and the amount is present (never
\* infinity, never NaN).
C1_UnitPriceDerived ==
    ( /\ asm.status = "done"
      /\ asm.path \in {"posta_xml", "posta_hersu", "posta_generic", "petrol_consolidate"}
      /\ (asm.path = "posta_xml" \/ ~asm.cols.ppu) ) =>
        \A j \in 1..Len(asm.out) :
            LET o == asm.out[j]
            IN /\ (IsNum(o.vol) /\ o.vol # Num(0) /\ IsNum(o.imp)) => o.ppu = FDiv(o.imp, o.vol)
               /\ (o.vol = Num(0) /\ IsNum(o.imp)) => o.ppu = Num(0)

\* ---- C2 ----------------------------------------------------------------
\* C2: a row of a spreadsheet with a volume and an amount column (its date
\* being good) is dropped if and only if volume and amount are both absent; a
\* row with volume 0 and amount 50 is kept, with unit_price 0 when the file
\* supplies no unit price.
C2_RowDropRule ==
    ( /\ asm.status = "done"
      /\ asm.path \in {"posta_hersu", "posta_generic", "petrol_consolidate"}
      /\ asm.cols.vol /\ asm.cols.imp ) =>
        \A i \in 1..Len(asm.rows) :
            LET r == asm.rows[i]
            IN r.fecha = "ok" =>
                /\ AsmKept(i) <=> ~(r.vol = NaN /\ r.imp = NaN)
                /\ (r.vol = Num(0) /\ r.imp = Num(50) /\ ~asm.cols.ppu) =>
                        (AsmKept(i) /\ AsmRecordOf(i).ppu = Num(0))

\* ---- C3 ----------------------------------------------------------------
\* C3: when the file has a unit-price column, the record's unit_price is the
\* number read from the row's unit-price cell (absent or 0 when that cell holds
\* no number), never amount / volume.
C3_LiteralUnitPriceKept ==
    ( /\ asm.status = "done"
      /\ asm.path \in {"posta_hersu", "posta_generic", "petrol_consolidate"}
      /\ asm.cols.ppu ) =>
        \A j \in 1..Len(asm.out) :
            LET o == asm.out[j]
                lit == asm.rows[o.src].ppu
            IN IF IsNum(lit) THEN o.ppu = lit ELSE o.ppu \in {NaN, Num(0)}

\* a record was emitted whose unit price 7 was read from the row although
\* amount / volume is 25
C3_Witness ==
    /\ asm.status = "done"
    /\ asm.path = "posta_generic"
    /\ asm.cols.ppu
    /\ \E j \in 1..Len(asm.out) :
          /\ asm.rows[asm.out[j].src].ppu = Num(7)
          /\ asm.out[j].vol = Num(2) /\ asm.out[j].imp = Num(50)
          /\ asm.out[j].ppu = Num(7)

\* ---- C6 ----------------------------------------------------------------
\* C6: in every ingestion and migration path a row that is complete otherwise
\* is emitted whatever its product label; the label XYZ123 stays as it is, and
\* in the paths that map products the trimmed label NS XXI becomes GNC.
C6_ProductMapping ==
    (asm.status = "done" /\ asm.cols.prod) =>
        \A i \in 1..Len(asm.rows) :
            LET r == asm.rows[i]
            IN (r.fecha = "ok" /\ IsNum(r.vol) /\ IsNum(r.imp)) =>
                /\ AsmKept(i)
                /\ r.prod = Text(Label.XYZ123) => AsmRecordOf(i).prod = Text(Label.XYZ123)
                /\ ( /\ Strip(r.prod.s) = Label.NSXXI
                     /\ asm.path \in {"posta_xml", "posta_hersu", "posta_generic", "petrol_migrate"} )
                        => AsmRecordOf(i).prod = Text(Label.GNC)

\* the posta spreadsheet path alone maps products as C6 says
PostaProductMapping ==
    (asm.path \in {"posta_xml", "posta_hersu", "posta_generic"}) => C6_ProductMapping

\* ---- C7 ----------------------------------------------------------------
\* the keyword families of find_data_start's header tokens found in a row
C7_ScanFamilies(row) ==
    LET vals == RowValues(row)
    IN {f \in {"date", "pump", "volume", "amount"} :
          \/ f = "date" /\ vals \cap {Word.Fecha, Word.FechaYHora} # {}
          \/ f = "pump" /\ vals \cap {Word.Pico, Word.Manguera, Word.Surt, Word.Mang} # {}
          \/ f = "volume" /\ Word.Volumen \in vals
          \/ f = "amount" /\ Word.Importe \in vals}

\* the keyword families of the scored choice found in a row taken as header
C7_ScoreFamilies(row) ==
    LET has(words) ==
            \E i \in 1..Len(row) : ~row[i].na /\ \E w \in words : Contains(Upper(row[i].s), w)
    IN {f \in {"date", "pump", "volume", "amount", "product"} :
          \/ f = "date" /\ has({Word.FECHA})
          \/ f = "pump" /\ has({Word.PICO, Word.SURTIDOR})
          \/ f = "volume" /\ has({Word.VOLUMEN, Word.LITROS})
          \/ f = "amount" /\ has({Word.IMPORTE, Word.MONTO})
          \/ f = "product" /\ has({Word.PRODUCTO, Word.COMBUSTIBLE})}

\* fams[i] are the keyword families of row i of the grid
C7_NotPast(fams) ==
    /\ \A i \in 1..Len(fams) : Cardinality(fams[i]) >= 2 => hdr.out <= i - 1
    /\ (\A i \in 1..Len(fams) : fams[i] = {}) => hdr.out = 0

C7_ScanRows == [i \in 1..Len(hdr.grid) |-> C7_ScanFamilies(hdr.grid[i])]
C7_ScoreRows == [i \in 1..Len(hdr.grid) |-> C7_ScoreFamilies(hdr.grid[i])]

C8_ReplaceIdempotent ==
    \A i \in 1..(Len(hist.last) - 1) :
        (hist.last[i].op \in {"posta", "csvdb"} /\ hist.last[i + 1].op = hist.last[i].op)
            => hist.last[i + 1].table = hist.last[i].table

\* the Posta migration has persisted twice in a row over a table that held
\* something else before
C8_Witness ==
    /\ Len(hist.last) = 3
    /\ hist.last[1].table = <<LegacyRec>>
    /\ hist.last[2].op = "posta" /\ hist.last[2].end = "persisted"
    /\ hist.last[3].op = "posta" /\ hist.last[3].end = "persisted"
    /\ hist.last[2].table # hist.last[1].table
    /\ table = hist.last[2].table

\* ---- C9 ----------------------------------------------------------------
Range(q) == {q[i] : i \in 1..Len(q)}

\* C9: a run never ends by one file's failure, and when it has ended the
\* records of every file that could be read are in the destination.
C9_FileFailureIsolated ==
    /\ run.pc # "crashed"
    /\ (run.kind = "posta" /\ run.pc \in {"persisted", "aborted"}) =>
          \A f \in 1..NFiles :
              (files[f].good /\ files[f].kind \in {"xls", "csv", "xml"})
                  => Range(RecordsOf("posta", f)) \subseteq Range(table)
    /\ (run.kind = "consolidate" /\ run.pc \in {"persisted", "aborted"}) =>
          \A f \in 1..NFiles :
              (files[f].good /\ files[f].kind = "xls")
                  => Range(RecordsOf("petrol", f)) \subseteq Range(csv)

\* the spreadsheet and XML readers do isolate a failure: a run over files none
\* of which is an unreadable CSV persists every readable file
PostaIsolatesCaughtFailures ==
    (\A f \in 1..NFiles : ~Raises(f)) => C9_FileFailureIsolated

\* ---- C10 ---------------------------------------------------------------
C10_Start == hist.last[Len(hist.last)]

C10_PostaGood == {f \in 1..NFiles : files[f].good /\ files[f].kind \in {"xls", "csv", "xml"}}
C10_PetrolGood == {f \in 1..NFiles : files[f].good /\ files[f].kind = "xls"}

C10_Whole(dest, src, good) ==
    /\ Range(dest) = UNION {Range(RecordsOf(src, f)) : f \in good}
    /\ Len(dest) = Cardinality(good) * Len(FileRows)

C10_NoPartialWrite ==
    /\ run.pc \in {"files", "combine", "aborted", "crashed"} =>
          (run.writes = 0 /\ table = C10_Start.table /\ csv = C10_Start.csv)
    /\ run.pc = "persisted" =>
          /\ run.writes = 1 /\ run.todo = <<>>
          /\ run.kind = "posta" => C10_Whole(table, "posta", C10_PostaGood)
          /\ run.kind = "consolidate" => C10_Whole(csv, "petrol", C10_PetrolGood)
    /\ xml.pc \in {"rows", "crashed"} => xml.data = C10_Start.fuel
    /\ xml.pc = "persisted" =>
          xml.data = C10_Start.fuel \o [i \in 1..Len(FileRows) |-> <<"xml", xml.f, FileRows[i]>>]

\* C10 as stated: every run writes its destination exactly once, after all
\* files' results are collected, and never leaves part of the run's records.
C10_WrittenExactlyOnce ==
    /\ C10_NoPartialWrite
    /\ run.pc \in {"persisted", "aborted", "crashed"} => run.writes = 1

\* C10 as amended: a run writes its destination at most once: exactly once,
\* after all files' results are collected and with the records of all of them,
\* when it ends persisted, and not at all when it ends without data or by an
\* exception; the destination never holds part of the run's records.
C10_WrittenAtMostOnce ==
    /\ C10_NoPartialWrite
    /\ run.writes <= 1
    /\ (run.pc \in {"aborted", "crashed"}) => run.writes = 0

\* a Posta run over two readable files has persisted, with one write that
\* replaced what the table held
C10_Witness ==
    /\ run.kind = "posta" /\ run.pc = "persisted" /\ run.writes = 1
    /\ Cardinality(C10_PostaGood) = 2
    /\ C10_Start.table = <<LegacyRec>>
    /\ Len(table) = 2 * Len(FileRows)

\* ---- C11 ---------------------------------------------------------------
C11_Produced ==
    IF run.kind = "posta" THEN C10_PostaGood # {} ELSE C10_PetrolGood # {}

\* C11: a run that has ended has ended persisted or aborted; it has ended
\* aborted exactly when no file produced a record, and then the destination is
\* as it was before the run.
C11_AbortedIffNoRecord ==
    run.pc \in {"persisted", "aborted", "crashed"} =>
        /\ run.pc \in {"persisted", "aborted"}
        /\ run.pc = "aborted" <=> ~C11_Produced
        /\ run.pc = "aborted" => (table = C10_Start.table /\ csv = C10_Start.csv)

\* the same for the runs over files none of which lets an exception escape
TerminalStatesWithoutEscape ==
    (\A f \in 1..NFiles : ~Raises(f)) => C11_AbortedIffNoRecord

\* ---- C12 ---------------------------------------------------------------
\* C12: a row whose date is no calendar date is not among the records, and the
\* file it is in is still assembled: the rows beside it that are complete are
\* among the records.
C12_BadDateDropsRowOnly ==
    (asm.status # "raw" /\ asm.cols.vol /\ asm.cols.imp) =>
        /\ asm.status = "done"
        /\ \A i \in 1..Len(asm.rows) :
              /\ asm.rows[i].fecha = "bad" => ~AsmKept(i)
              /\ asm.rows[i] = GoodRow => AsmKept(i)

\* process_excel_xml_file does so: strptime's ValueError skips the one row
XmlDropsBadDateRowOnly ==
    asm.path = "posta_xml" => C12_BadDateDropsRowOnly

\* ---- C13 ---------------------------------------------------------------
\* C13: the records a query returns are in non-decreasing order of fecha.
C13_OrderedByDate ==
    qry.done => \A i, j \in 1..Len(qry.out) : i < j => qry.out[i].fecha <= qry.out[j].fecha

\* ---- C14 ---------------------------------------------------------------
C14_Given(flt) == flt.k = "one" \/ (flt.k = "many" /\ Len(flt.v) > 0)

C14_OneOf(flt, x) ==
    IF flt.k = "one" THEN x = flt.v ELSE x \in {flt.v[i] : i \in 1..Len(flt.v)}

C14_Branch(org, sucursal) ==
    IF org \in {Name.posta, Name.POSTA, Name.Posta}
    THEN SubSeq(Upper(sucursal), 1, 5) = Name.POSTA
    ELSE \E a, b \in 1..Len(sucursal) : Upper(SubSeq(sucursal, a, b)) = Upper(org)

C14_Satisfies(r) ==
    /\ C14_Given(qry.f.organization) => C14_Branch(qry.f.organization.v, r.sucursal)
    /\ C14_Given(qry.f.producto) => C14_OneOf(qry.f.producto, r.producto)
    /\ C14_Given(qry.f.start_date) => qry.f.start_date.v <= r.fecha
    /\ C14_Given(qry.f.end_date) => r.fecha <= qry.f.end_date.v
    /\ C14_Given(qry.f.pico) => C14_OneOf(qry.f.pico, r.pico)

C14_Times(q, r) == Cardinality({i \in 1..Len(q) : q[i] = r})

\* C14: a query returns each stored record that satisfies every filter given,
\* as many times as it is stored, and no other record; a filter that is not
\* given (None or an empty list) restricts nothing.
C14_ExactlyTheMatches ==
    qry.done =>
        \A r \in QryRows :
            C14_Times(qry.out, r) = IF C14_Satisfies(r) THEN C14_Times(qry.table, r) ELSE 0

\* a query with all five filters given has returned some of the stored rows
C14_Witness ==
    /\ qry.done
    /\ \A k \in {"organization", "producto", "start_date", "end_date", "pico"} :
          C14_Given(qry.f[k])
    /\ Len(qry.table) = 2
    /\ Len(qry.out) = 1

\* ---- C16 ---------------------------------------------------------------
\* C16: the fields read from a row are keyed by cell index: each field of an
\* emitted record holds the value of the cell that stands in the field's
\* column, whatever cells the row has.
C16_IndexKeyed ==
    xrow.out.emitted => \A k \in DOMAIN xrow.out.got : xrow.out.got[k] = k

\* process_excel_xml_file reads by the ss:Index attribute
PostaXmlIndexKeyed ==
    xrow.reader = "migrate_posta_data" => C16_IndexKeyed

\* ---- C15 ---------------------------------------------------------------
\* the field value x is the value has-column and cell give, or absent, or 0
C15_ReadOrEmpty(x, has, cell) == x \in {NaN, Num(0)} \/ (has /\ x = cell)

\* C15: in every record, volume and amount are the values read from the row,
\* or absent, or 0, and the unit price is the value read from the row, or
\* amount/volume of the record, or absent, or 0: a value that is missing or
\* did not parse is never replaced by a non-zero number.
C15_NoGuessedNumber ==
    asm.status = "done" =>
        \A j \in 1..Len(asm.out) :
            LET o == asm.out[j]
                r == asm.rows[o.src]
            IN /\ C15_ReadOrEmpty(o.vol, asm.cols.vol, r.vol)
               /\ C15_ReadOrEmpty(o.imp, asm.cols.imp, r.imp)
               /\ C15_ReadOrEmpty(o.ppu, asm.cols.ppu, r.ppu) \/ o.ppu = FDiv(o.imp, o.vol)

\* a Petrol file without a volume column has given a record with volume 0
\* beside an amount of 50, and an absent unit price has become 0
C15_Witness ==
    /\ asm.status = "done" /\ asm.path = "petrol_consolidate" /\ ~asm.cols.vol
    /\ \E j \in 1..Len(asm.out) :
          /\ asm.out[j].vol = Num(0) /\ asm.out[j].imp = Num(50)
          /\ asm.rows[asm.out[j].src].ppu = NaN /\ asm.out[j].ppu = Num(0)

\* ---- C17 ---------------------------------------------------------------
C17_ReportOfOthers(what) ==
    \A i \in 1..Len(run.log) : files[run.log[i][1]].kind = "other" => run.log[i][2] = what

\* C17: a file whose extension is none of .xls, .xlsx, .csv and .xml is
\* reported as unsupported when the run comes to it, and it alone is lost: the
\* run persists the records of the files that could be read (runs ended by an
\* unreadable CSV, the subject of C9, set aside).
C17_UnsupportedReported ==
    /\ C17_ReportOfOthers("unsupported")
    /\ PostaIsolatesCaughtFailures

\* the file is passed over without a report, and it alone is lost
UnsupportedPassedOver ==
    /\ C17_ReportOfOthers("nothing")
    /\ PostaIsolatesCaughtFailures

\* ---- C18 ---------------------------------------------------------------
\* the score as stated: 2 for each keyword family among the labels of the row
\* taken as header at depth k, 2 for a width of four columns or more, 1 when
\* none of the first five data rows is empty
C18_Score(k) ==
    LET data == SubSeq(hdr.grid, k + 2, Len(hdr.grid))
    IN 2 * Cardinality(C7_ScoreFamilies(hdr.grid[k + 1]))
       + (IF Len(hdr.grid[k + 1]) >= 4 THEN 2 ELSE 0)
       + (IF \A i \in 1..Len(data) : i <= 5 => \E c \in 1..Len(data[i]) : ~data[i][c].na
          THEN 1 ELSE 0)

\* C18: the depth selected is the smallest of the candidate depths that have
\* the highest score, the score counting 2 for each of the five keyword
\* families, 2 for four columns or more, and 1 for no empty row among the
\* first five.
C18_FirstMaximumSelected ==
    (hdr.kind = "score" /\ hdr.out >= 0) =>
        \A k \in 0..(Len(hdr.grid) - 2) :
            /\ C18_Score(k) <= C18_Score(hdr.out)
            /\ k < hdr.out => C18_Score(k) < C18_Score(hdr.out)

\* ---- C19 ---------------------------------------------------------------
\* the columns of the sheet that stand for the field f under the rules of the
\* reader that classified it
C19_Candidates(f) ==
    LET n == Len(cls.cols)
        label(i) == cls.cols[i].label
    IN IF cls.by = "process_excel_file"
       THEN IF f = "fecha"
            THEN {i \in 1..n : \/ cls.cols[i].slash
                               \/ Contains(Upper(label(i)), Word.FECHA)
                               \/ Contains(Upper(label(i)), Word.DATE)}
            ELSE {i \in 1..n : FieldClass(label(i)) = f}
       ELSE CASE f = "fecha" -> {i \in 1..n : label(i) \in {Word.fecha, Word.FechaFinal}}
              [] f = "pico" -> {i \in 1..n : label(i) \in {Word.pico, Word.Manguera}}
              [] f = "producto" -> {i \in 1..n : label(i) \in {Word.producto, Word.Combust}}
              [] f = "volumen" -> {i \in 1..n : label(i) \in {Word.volumen, Word.Volumen}}
              [] f = "importe" -> {i \in 1..n : label(i) \in {Word.importe, Word.Monto}}
              [] f = "ppu" -> {i \in 1..n : label(i) \in {Word.ppu, Word.Precio}}

C19_Fields == {"fecha", "pico", "producto", "volumen", "importe", "ppu"}

C19_Rightmost(f) == CHOOSE i \in C19_Candidates(f) : \A j \in C19_Candidates(f) : j <= i

\* C19: when two columns of a sheet stand for one field of the record, the
\* field is read from the rightmost of them: standardising does not fail on
\* the pair, and whenever a record layout results, the field's column is the
\* last candidate.
C19_LaterColumnWins ==
    cls.by # "none" =>
        \A f \in C19_Fields :
            Cardinality(C19_Candidates(f)) >= 2 =>
                /\ cls.by = "standardize_dataframe" => ~cls.out.raised
                /\ ~cls.out.raised => cls.out[f] = C19_Rightmost(f)

\* what the classification of process_excel_file does keep: every field but
\* the date is read from the rightmost column of its class
LaterColumnWinsExceptDate ==
    (cls.by = "process_excel_file" /\ ~cls.out.raised) =>
        \A f \in C19_Fields \ {"fecha"} :
            C19_Candidates(f) # {} => cls.out[f] = C19_Rightmost(f)

\* ---- C20 ---------------------------------------------------------------
C20_DateLabelled == {i \in 1..Len(cls.cols) : \/ Contains(Upper(cls.cols[i].label), Word.FECHA)
                                               \/ Contains(Upper(cls.cols[i].label), Word.DATE)}

\* C20: the keyword rule comes before content sniffing: when a column of the
\* sheet is labelled with a date keyword, the date column chosen is one so
\* labelled, whatever the sample values of the other columns hold.
C20_KeywordBeforeSniffing ==
    (cls.by = "process_excel_file" /\ C20_DateLabelled # {}) =>
        /\ ~cls.out.raised
        /\ cls.out.fecha \in C20_DateLabelled

\* the order the code has: a column with '/' in its sample values is taken
\* whenever there is one, labels being looked at only when there is none
SniffingBeforeKeyword ==
    (cls.by = "process_excel_file" /\ \E i \in 1..Len(cls.cols) : cls.cols[i].slash) =>
        /\ ~cls.out.raised
        /\ cls.cols[cls.out.fecha].slash

\* ---- C21 ---------------------------------------------------------------
\* C21: a row whose pump cell is empty, and that lacks nothing else, is
\* emitted by every path, and its record carries the sentinel '1' as pump.
C21_AbsentPumpGetsSentinel ==
    asm.status = "done" =>
        \A i \in 1..Len(asm.rows) :
            asm.rows[i] = NoPumpRow =>
                /\ AsmKept(i)
                /\ AsmRecordOf(i).pico = Text(<<"1">>)

\* what the sheet readers do: the sentinel stands in for a pump column the
\* sheet does not have, and no row is dropped for its pump
MissingPumpColumnGetsSentinel ==
    (asm.status = "done" /\ asm.path \in {"posta_hersu", "posta_generic", "petrol_consolidate"}) =>
        /\ ~asm.cols.pico => \A j \in 1..Len(asm.out) : asm.out[j].pico = Text(<<"1">>)
        /\ \A i \in 1..Len(asm.rows) : asm.rows[i] = NoPumpRow => AsmKept(i)

\* ---- C22 ---------------------------------------------------------------
\* C22: a number that does not parse leaves its field absent and nothing
\* more: in the XML reader a row with a date, a pump and a product, of which
\* just one of volume and amount does not parse, is emitted.
C22_UnparsedNumberKeepsRow ==
    (asm.status = "done" /\ asm.path = "posta_xml") =>
        \A i \in 1..Len(asm.rows) :
            LET r == asm.rows[i]
            IN ( /\ r.fecha = "ok" /\ r.pico.s # <<>> /\ r.prod.s # <<>>
                 /\ (r.vol = NaN) # (r.imp = NaN) ) => AsmKept(i)

\* the part that the normalizer keeps: clean_numeric_string ends with a
\* number or with None, the failure of float() never leaving it
NormalizerReturnsNumberOrNone ==
    num.path = "csv" =>
        /\ num.out.k \in {"none", "num", "nan", "inf"}
        /\ num.out = NoneVal <=>
                (num.in.na \/ ParseFloat(FixSeparators(StripUnits(num.in.s))) = ParseError)

\* ---- C23 ---------------------------------------------------------------
\* the text up to its first character outside the digits, '/', ':' and blank
C23_Cut(s) ==
    LET bad == {i \in 1..Len(s) : s[i] \notin Digits \cup {"/", ":", Space}}
    IN IF bad = {} THEN s
       ELSE SubSeq(s, 1, (CHOOSE i \in bad : \A j \in bad : i <= j) - 1)

\* the formats that convert the cut text
C23_Hits(s) == {k \in 1..Len(DateFormats) : to_datetime(C23_Cut(s), DateFormats[k]).ok}

\* the result is that of the first format, in the order of the list, that
\* converts the cut text, and absent when no format does
C23_FirstFormatOfCutText ==
    (dat.done /\ dat.in.type = "str") =>
        /\ C23_Hits(dat.in.s) = {} => dat.out.fmt = 0
        /\ C23_Hits(dat.in.s) # {} =>
                /\ dat.out.fmt \in C23_Hits(dat.in.s)
                /\ \A k \in C23_Hits(dat.in.s) : dat.out.fmt <= k
                /\ dat.out.at = to_datetime(C23_Cut(dat.in.s), DateFormats[dat.out.fmt]).at

\* C23: the text is cut at the first character outside the digits, '/', ':'
\* and blank, the formats are tried in the order of the list and the first
\* that converts gives the result, absent when none converts; and each
\* format of the list converts the cut text of some cell.
C23_DateParsing ==
    /\ C23_FirstFormatOfCutText
    /\ dat.done => \A k \in 1..Len(DateFormats) :
                       \E c \in DateInputs : c.type = "str" /\ k \in C23_Hits(c.s)

\* the third format has '-' between its fields, and the cut removes
\* everything from the first '-' on: no cell is converted by it
IsoFormatNeverConverts == dat.done => dat.out.fmt # 3

\* ---- C24 ---------------------------------------------------------------
\* the marker of the reader that stripped the table
C24_Marker == IF foot.by = "process_excel_file" THEN Word.CANTIDAD ELSE Word.Surtidor

C24_Removed == {i \in 1..Len(foot.rows) : \A j \in 1..Len(foot.left) : foot.left[j] # i}

\* C24: a row that is removed belongs to the trailing footer: its first cell
\* begins with the marker, and so does the first cell of every row after it.
C24_OnlyTrailingFooterRemoved ==
    (foot.by # "none" /\ ~foot.raised) =>
        \A i \in C24_Removed :
            \A j \in i..Len(foot.rows) :
                ~foot.rows[j].na /\ StartsWith(foot.rows[j].s, C24_Marker)

\* what is removed is every row whose first cell holds the marker, wherever
\* in the cell and wherever in the table
EveryRowHoldingMarkerRemoved ==
    (foot.by # "none" /\ ~foot.raised) =>
        \A i \in 1..Len(foot.rows) :
            i \in C24_Removed <=>
                (~foot.rows[i].na /\ Contains(foot.rows[i].s, C24_Marker))

\* ---- C25 ---------------------------------------------------------------
\* C25: the nozzle of a parsed pair is a letter, a numeric nozzle index
\* having been turned into the letter of that rank; "12/1" gives pump "12"
\* and nozzle "a".
C25_NumericNozzleToLetter ==
    (pico.done /\ ~pico.out[2].na) =>
        /\ Len(pico.out[2].s) = 1 /\ pico.out[2].s[1] \in Letters
        /\ pico.in = Text(<<"1", "2", "/", "1">>) =>
                pico.out = <<Text(<<"1", "2">>), Text(<<"a">>)>>

\* the pair of a token with one '/' is made of the two trimmed sides as they
\* are: the nozzle of "12/1" is "1"
SlashSidesTakenAsTheyAre ==
    (pico.done /\ ~pico.in.na /\ Count(pico.in.s, "/") = 1) =>
        /\ pico.out[2].s = Strip(SplitSlash(pico.in.s)[2])
        /\ pico.in = Text(<<"1", "2", "/", "1">>) =>
                pico.out = <<Text(<<"1", "2">>), Text(<<"1">>)>>

\* ---- C26 ---------------------------------------------------------------
\* C26: a row read from the file is emitted or counted as dropped, one or the
\* other, so that the records and the count of dropped rows add up to the
\* data rows of the file.
C26_DroppedRowCounted ==
    xrow.reader # "none" => xrow.errors = (IF xrow.out.emitted THEN 0 ELSE 1)

\* process_xml_file counts the rows of seven cells or more that it drops
LongRowsCountedByProcessXml ==
    (xrow.reader = "process_xml" /\ Len(xrow.cells) >= 7) =>
        xrow.errors = (IF xrow.out.emitted THEN 0 ELSE 1)

C28_HeaderFound ==
    RowValues(hdr.grid[find_data_start(hdr.grid) + 1]) \cap CommonHeaders # {}

C28_HeaderRowUsed ==
    LET h == find_data_start(hdr.grid)
    IN /\ hdr.out.cols = [i \in 1..Len(hdr.grid[h + 1]) |->
                              Strip(AsTypeStr(hdr.grid[h + 1][i]))]
       /\ hdr.out.first = h + 1

\* C28: whatever the index h of the row that holds the header tokens, 0
\* included, that row gives the column labels and the data rows are the
\* rows after it.
C28_HeaderRowZeroLikeOthers ==
    (hdr.kind = "header" /\ C28_HeaderFound) => C28_HeaderRowUsed

\* so it is for a header below the first row
HeaderRowUsedBelowFirstRow ==
    (hdr.kind = "header" /\ find_data_start(hdr.grid) > 0) => C28_HeaderRowUsed

\* ---- C29 ---------------------------------------------------------------
\* the table a replace-policy run writes: the records of the readable files
\* (Posta migration), the records of the consolidated CSV (CSV migration)
C29_Replaced(e) ==
    IF e.op = "posta" THEN C10_Whole(e.table, "posta", C10_PostaGood)
    ELSE e.table = e.csv

C30_TotalPages == (pag.n + pag.page_size - 1) \div pag.page_size

\* C30: while a record matches, the stored page is one of the pages
\* 1..total_pages and the slice displayed is not empty.
C30_PageWithinRange ==
    pag.n >= 1 => (pag.stored \in 1..C30_TotalPages /\ pag.shown > 0)

\* the buttons alone keep the page in range: what the code guards is the
\* click, the stored page being at least 1 always
StoredPageAtLeastOne == pag.stored >= 1

====
